---------------------------- MODULE Spec2Model ----------------------------
(***************************************************************************)
(* Model of the response-parsing core of the article generator:           *)
(*   src/core/ai_models.py        parse_articles                          *)
(*   src/backend/app.py           _parse_articles_from_file               *)
(*   src/scripts/generate_innovations_single_video.py                     *)
(*                                parse_innovations_and_notes,            *)
(*                                parse_innovation_body                   *)
(*   src/scripts/generate_innovations_pipeline.py                         *)
(*                                parse_innovations_and_notes             *)
(*   src/core/generator.py        save_articles                           *)
(*                                                                         *)
(* A string is a sequence of one-character strings.  A position is a      *)
(* 1-based index; a regular-expression match is a record                  *)
(*   [ok, start, end, gs, ge]                                             *)
(* with start..end the matched text (re's m.start()+1 .. m.end()) and     *)
(* gs..ge the text of group 1.                                            *)
(***************************************************************************)
EXTENDS Integers, Sequences, FiniteSets, TLC

VARIABLES
    content,      \* the string handed to the parser (the raw model reply)
    pc,           \* "input" | "scanning" | "parsed" | "saved"
    fn,           \* the function that was applied to content
    sections,     \* the parser's local `sections` (the result of re.split)
    articles,     \* the list the parser returned
    raised,       \* TRUE iff the call ended with an exception
    fields,       \* the dict parse_innovation_body returned
    articles_file,\* text of output_dir/<title>.txt after save_articles
    master_csv,   \* rows of the master CSV (header row included)
    pairs,        \* the title/body pairs a fabricated reply was built from
    jobs,         \* app.py `jobs`, by job id, with each worker's position
    debug_file,   \* debug_pg_output.txt: whether it exists, and its text
    text_files,   \* the files <safe title>.txt of the articles directory, by name
    transcripts,  \* the files <safe title>.txt of the transcripts directory, by name
    response,     \* what the last call of a storage route of app.py returned
    scan          \* the notes-mode while loop: its index i and the iterations done

vars == <<content, pc, fn, sections, articles, raised, fields, articles_file,
          master_csv, pairs, jobs, debug_file,
                   text_files, transcripts, response, scan>>

----------------------------------------------------------------------------
(* Program constants *)

\* ai_models.py:173 and app.py:423: `len(section) < 80`
MinSectionLen == 80
\* ai_models.py:188: `len(body) < 100`
MinBodyLen == 100
\* app.py:433: `len(body) < 50`
MinFileBodyLen == 50
\* generate_innovations_single_video.py:379: `len(section) < 50`
MinNotesSectionLen == 50
\* generate_innovations_single_video.py:432: `len(next_section) < 400`
MaxNoteLen == 400

----------------------------------------------------------------------------
(* Strings *)

\* the characters str.strip() removes and \s matches, within the alphabet
WS == {" ", "\n", "\t", "\r"}

IsSpace(c) == c \in WS

\* least i in lo..hi with P(i), 0 when there is none
Least(lo, hi, P(_)) ==
    IF \E i \in lo..hi : P(i)
    THEN CHOOSE i \in lo..hi : P(i) /\ \A j \in lo..(i - 1) : ~P(j)
    ELSE 0

\* greatest i in lo..hi with P(i), 0 when there is none
Greatest(lo, hi, P(_)) ==
    IF \E i \in lo..hi : P(i)
    THEN CHOOSE i \in lo..hi : P(i) /\ \A j \in (i + 1)..hi : ~P(j)
    ELSE 0

\* the characters of a string literal, as a sequence
Chars(str) == [i \in 1..Len(str) |-> SubSeq(str, i, i)]

\* s[a..b], empty when a > b
Slice(s, a, b) == IF a > b THEN <<>> ELSE SubSeq(s, a, b)

\* s[a:] of Python, a counted from 1
From(s, a) == Slice(s, a, Len(s))

\* s[:k]
Prefix(s, k) == Slice(s, 1, IF Len(s) < k THEN Len(s) ELSE k)

\* s without what lies before position a and after position b; a = 0: all
\* of s is whitespace
StripTo(s, a, b) == IF a = 0 THEN <<>> ELSE SubSeq(s, a, b)

\* str.strip()
Strip(s) ==
    StripTo(s, Least(1, Len(s), LAMBDA i : ~IsSpace(s[i])),
               Greatest(1, Len(s), LAMBDA i : ~IsSpace(s[i])))

\* s.find(t) + 1: the first position where t occurs in s, 0 when nowhere
Find(s, t) ==
    IF Len(t) = 0 THEN 1
    ELSE Least(1, Len(s) - Len(t) + 1,
               LAMBDA i : \A k \in 1..Len(t) : s[i + k - 1] = t[k])

\* `t in s`
Contains(s, t) == Find(s, t) # 0

\* e when it is a position, Len(s) + 1 when e = 0
OrPastEnd(s, e) == IF e = 0 THEN Len(s) + 1 ELSE e

\* the last position of the line that holds position p (p itself not a
\* newline): where `$` matches under re.MULTILINE
EndOfLine(s, p) == OrPastEnd(s, Least(p, Len(s), LAMBDA i : s[i] = "\n")) - 1

\* where `^` matches under re.MULTILINE
LineStart(s, i) == i = 1 \/ s[i - 1] = "\n"

NoMatch == [ok |-> FALSE, start |-> 0, end |-> 0, gs |-> 0, ge |-> 0]

\* the match start..end with group 1 at gs..ge
Match(start, end, gs, ge) ==
    [ok |-> TRUE, start |-> start, end |-> end, gs |-> gs, ge |-> ge]

\* m.group(1)
Group1(s, m) == Slice(s, m.gs, m.ge)

\* m.group(0)
Group0(s, m) == Slice(s, m.start, m.end)

\* the match M finds at position i, none when i = 0
MatchAt(s, M(_, _), i) == IF i = 0 THEN NoMatch ELSE M(s, i)

\* re.search: the match at the first position where the pattern M matches
Search(s, M(_, _)) == MatchAt(s, M, Least(1, Len(s), LAMBDA i : M(s, i).ok))

\* a if it is a match, else b:  `a or b` of two match objects
OrElse(a, b) == IF a.ok THEN a ELSE b

----------------------------------------------------------------------------
(* re.split(r"\n-{3,}\n", content)  --  and r"\n---+\n", the same language *)

\* the delimiter with two hyphens allowed, r"\n-{2,}\n"
DelimCloseTwo(s, i, e) ==
    IF e # 0 /\ e - (i + 1) >= 2 /\ s[e] = "\n" THEN e ELSE 0

\* the delimiter that the end of the string may close, r"\n-{3,}(\n|$)"
DelimCloseAtEnd(s, i, e) ==
    IF e # 0 /\ e - (i + 1) >= 3 /\ s[e] = "\n" THEN e
    ELSE IF e = 0 /\ Len(s) - i >= 3 THEN Len(s)
    ELSE 0

\* the last position of a delimiter whose hyphens run from i + 1 to e - 1,
\* 0 when that is no delimiter: three hyphens at least, then a newline
DelimClose(s, i, e) ==
    IF e # 0 /\ e - (i + 1) >= 3 /\ s[e] = "\n" THEN e ELSE 0

\* the last position of a delimiter match that starts at i, 0 when none does:
\* a newline, the whole run of hyphens after it, a newline
DelimEnd(s, i) ==
    IF s[i] # "\n" THEN 0
    ELSE DelimClose(s, i, Least(i + 1, Len(s), LAMBDA j : s[j] # "-"))

RECURSIVE SplitFrom(_, _)
\* the pieces of s cut at the delimiter that starts at position d (d = 0:
\* there is none left), and at those after it
SplitAt(s, from, d) ==
    IF d = 0 THEN <<From(s, from)>>
    ELSE <<Slice(s, from, d - 1)>> \o SplitFrom(s, DelimEnd(s, d) + 1)

\* the pieces of s from position `from` on; matches are taken left to right
\* and do not overlap
SplitFrom(s, from) ==
    SplitAt(s, from, Least(from, Len(s), LAMBDA i : DelimEnd(s, i) # 0))

\* re.split(pattern, s)
Split(s) == SplitFrom(s, 1)

----------------------------------------------------------------------------
(* The two title patterns *)

\* the bold match that opens at i and closes with the pair at j, j + 1
BoldClose(i, j) == IF j = 0 THEN NoMatch ELSE Match(i, j + 1, i + 2, j - 1)

\* the bold pattern with a greedy group, r"^\*\*(.+)\*\*": the group runs to
\* the last closing pair of the line
BoldAtGreedy(s, i) ==
    IF ~(LineStart(s, i) /\ i + 2 <= Len(s) /\ s[i] = "*" /\ s[i + 1] = "*"
         /\ s[i + 2] # "\n")
    THEN NoMatch
    ELSE BoldClose(i, Greatest(i + 3, EndOfLine(s, i + 2) - 1,
                               LAMBDA j : s[j] = "*" /\ s[j + 1] = "*"))

\* r"^\*\*(.+?)\*\*" at position i: a line start, the opening pair, then the
\* shortest non-empty run without a newline that a closing pair follows
BoldAt(s, i) ==
    IF ~(LineStart(s, i) /\ i + 2 <= Len(s) /\ s[i] = "*" /\ s[i + 1] = "*"
         /\ s[i + 2] # "\n")
    THEN NoMatch
    ELSE BoldClose(i, Least(i + 3, EndOfLine(s, i + 2) - 1,
                            LAMBDA j : s[j] = "*" /\ s[j + 1] = "*"))

\* re.search(r"^\*\*(.+?)\*\*", s, re.MULTILINE)
BoldSearch(s) == Search(s, BoldAt)

\* the heading match at i whose group 1 starts at p and runs to the end e of
\* p's line
HeadingClose(i, p, e) == IF p = 0 THEN NoMatch ELSE Match(i, e, p, e)

\* where group 1 of the heading pattern starts: at the first character w
\* after the whitespace, or, when whitespace runs to the end of the string
\* (w = 0), at the last character that is not a newline
HeadingGroupStart(s, i, w) ==
    IF w # 0 THEN w ELSE Greatest(i + 2, Len(s), LAMBDA j : s[j] # "\n")

\* the heading match at i with group 1 starting at p
HeadingFrom(s, i, p) ==
    HeadingClose(i, p, IF p = 0 THEN 0 ELSE EndOfLine(s, p))

\* r"^#\s+(.+?)$" at position i: a line start, `#`, the longest run of
\* whitespace (newlines included) that leaves a non-newline character to start
\* group 1, then group 1 up to the end of that line
HeadingAt(s, i) ==
    IF ~(LineStart(s, i) /\ i + 1 <= Len(s) /\ s[i] = "#" /\ IsSpace(s[i + 1]))
    THEN NoMatch
    ELSE HeadingFrom(s, i,
             HeadingGroupStart(s, i, Least(i + 1, Len(s), LAMBDA j : ~IsSpace(s[j]))))

\* re.search(r"^#\s+(.+?)$", s, re.MULTILINE)
HeadingSearch(s) == Search(s, HeadingAt)

----------------------------------------------------------------------------
(* parse_articles  (src/core/ai_models.py) *)

\* the two patterns tried in the other order
TitleMatchHeadingFirst(section) == OrElse(HeadingSearch(section), BoldSearch(section))

\* lines 177-179: the bold pattern first, the heading pattern only when the
\* bold pattern matches nowhere in the section
TitleMatchSimple(section) == OrElse(BoldSearch(section), HeadingSearch(section))

\* line 184: title_match.group(1).strip()
TitleOf(section, m) == Strip(Group1(section, m))

\* the body taken without .strip()
BodyAfterMatchRaw(section, m) == From(section, m.end + 1)

\* line 185: section[title_match.end():].strip()
BodyAfterMatch(section, m) == Strip(From(section, m.end + 1))

\* the article appended whatever the length of its body
ExtractSimpleAnyBody(k, title, body) == <<[title |-> title, body |-> body, sec |-> k]>>

\* lines 187-194: the article is appended unless its body is too short.
\* `sec` is not a key of the program's dict: it records the index of the
\* section the article came from.
ExtractSimpleBody(k, title, body) ==
    IF Len(body) < MinBodyLen THEN <<>>
    ELSE <<[title |-> title, body |-> body, sec |-> k]>>

\* a section without a title match kept under a made-up title, the way
\* _parse_articles_from_file keeps it
ExtractSimpleUntitled(k, section, m) ==
    IF ~m.ok THEN ExtractSimpleBody(k, Chars("Untitled"), section)
    ELSE ExtractSimpleBody(k, TitleOf(section, m), BodyAfterMatch(section, m))

\* lines 181-185: no title match, no article
ExtractSimpleMatch(k, section, m) ==
    IF ~m.ok THEN <<>>
    ELSE ExtractSimpleBody(k, TitleOf(section, m), BodyAfterMatch(section, m))

\* lines 173-179: an empty or short section is skipped
ExtractSimpleSection(k, section) ==
    IF Len(section) = 0 \/ Len(section) < MinSectionLen THEN <<>>
    ELSE ExtractSimpleMatch(k, section, TitleMatchSimple(section))

\* lines 172-194, the body of the loop for the k-th section: the article it
\* appends, as a list of zero or one article
ExtractSimple(secs, k) == ExtractSimpleSection(k, Strip(secs[k]))

RECURSIVE ParseArticlesLoop(_, _)
\* lines 171-194: `for section in sections`, from the k-th section on
ParseArticlesLoop(secs, k) ==
    IF k > Len(secs) THEN <<>>
    ELSE ExtractSimple(secs, k) \o ParseArticlesLoop(secs, k + 1)

\* s[::-1]
Reverse(s) == [i \in 1..Len(s) |-> s[Len(s) + 1 - i]]

\* the list built with articles.insert(0, ...) in place of articles.append
parse_articles_prepending(text) == Reverse(ParseArticlesLoop(Split(text), 1))

\* lines 164-196
parse_articles(text) == ParseArticlesLoop(Split(text), 1)

----------------------------------------------------------------------------
(* _parse_articles_from_file  (src/backend/app.py) *)

Untitled == Chars("Untitled")

\* lines 433-436
ExtractFromFileBody(k, title, body) ==
    IF Len(body) < MinFileBodyLen THEN <<>>
    ELSE <<[title |-> title, body |-> body, sec |-> k]>>

\* lines 430-431: without a title match the title is "Untitled" and the body
\* is the whole section
ExtractFromFileMatch(k, section, m) ==
    IF m.ok
    THEN ExtractFromFileBody(k, TitleOf(section, m), BodyAfterMatch(section, m))
    ELSE ExtractFromFileBody(k, Untitled, section)

\* the section taken whatever its length
ExtractFromFileAnyLength(k, section) ==
    ExtractFromFileMatch(k, section, TitleMatchSimple(section))

\* lines 423-428
ExtractFromFileSection(k, section) ==
    IF Len(section) = 0 \/ Len(section) < MinSectionLen THEN <<>>
    ELSE ExtractFromFileMatch(k, section, TitleMatchSimple(section))

\* lines 422-436, the body of the loop for the k-th section
ExtractFromFile(secs, k) == ExtractFromFileSection(k, Strip(secs[k]))

RECURSIVE ParseFromFileLoop(_, _)
\* lines 421-436
ParseFromFileLoop(secs, k) ==
    IF k > Len(secs) THEN <<>>
    ELSE ExtractFromFile(secs, k) \o ParseFromFileLoop(secs, k + 1)

\* lines 417-437
_parse_articles_from_file(raw) == ParseFromFileLoop(Split(raw), 1)

----------------------------------------------------------------------------
(* Letter case: str.lower(), str.isupper(), str.capitalize(), re.IGNORECASE *)

UpperLetters == <<"A", "B", "C", "D", "E", "F", "G", "H", "I", "J", "K", "L", "M",
                  "N", "O", "P", "Q", "R", "S", "T", "U", "V", "W", "X", "Y", "Z">>

LowerLetters == <<"a", "b", "c", "d", "e", "f", "g", "h", "i", "j", "k", "l", "m",
                  "n", "o", "p", "q", "r", "s", "t", "u", "v", "w", "x", "y", "z">>

IsUpper(c) == \E i \in 1..Len(UpperLetters) : UpperLetters[i] = c

Lower(c) ==
    IF IsUpper(c)
    THEN LowerLetters[CHOOSE i \in 1..Len(UpperLetters) : UpperLetters[i] = c]
    ELSE c

Upper(c) ==
    IF \E i \in 1..Len(LowerLetters) : LowerLetters[i] = c
    THEN UpperLetters[CHOOSE i \in 1..Len(LowerLetters) : LowerLetters[i] = c]
    ELSE c

\* str.lower()
LowerStr(s) == [i \in 1..Len(s) |-> Lower(s[i])]

\* str.capitalize(): the first character upper-cased, the rest lower-cased
Capitalize(s) == [i \in 1..Len(s) |-> IF i = 1 THEN Upper(s[i]) ELSE Lower(s[i])]

\* the literal `lit` matches at position i of s, letter case ignored
LitAtCI(s, i, lit) ==
    /\ i >= 1
    /\ i + Len(lit) - 1 <= Len(s)
    /\ \A k \in 1..Len(lit) : Lower(s[i + k - 1]) = Lower(lit[k])

\* the number of whitespace characters from position q on
WsRun(s, q) ==
    IF q > Len(s) THEN 0
    ELSE OrPastEnd(s, Least(q, Len(s), LAMBDA j : ~IsSpace(s[j]))) - q

\* the characters of the class [.!?]
SentenceEnd == {".", "!", "?"}

\* the first position >= g of a character of [.!?], 0 when there is none
NextSentenceEnd(s, g) == Least(g, Len(s), LAMBDA j : s[j] \in SentenceEnd)

----------------------------------------------------------------------------
(* Literals of the notes-mode sources *)

KeyInsightColon == Chars("Key Insight:")
ThinkAboutItColon == Chars("Think about it:")
BoldThinkAboutIt == <<"*", "*">> \o ThinkAboutItColon \o <<"*", "*">>
BoldSummaryColon == Chars("**Summary:**")
BlankThenBoldSummary == Chars("\n\n**Summary")
That == Chars("that")

\* generate_innovations_single_video.py:393 (generate_innovations_pipeline.py:397)
ArtifactTitles ==
    { Chars("key insight:"),
      Chars("key insight"),
      Chars("innovation"),
      Chars("think about it:"),
      Chars("summary:") }

\* generate_innovations_single_video.py:396-400: theme_patterns, each as the
\* literal prefixes its alternation admits and whether `(?:that\s+)?` follows
HeresPrefixes ==
    { Chars("Here's something"),
      Chars("Here's a truth"),
      Chars("Here's what's") }

YouKnowPrefixes ==
    { Chars("You know what"),
      Chars("Think about") }

JesusPrefixes ==
    { Chars("Jesus said"),
      Chars("Jesus told"),
      Chars("Jesus taught") }

theme_patterns ==
    << [prefixes |-> HeresPrefixes, that |-> TRUE],
       [prefixes |-> YouKnowPrefixes, that |-> FALSE],
       [prefixes |-> JesusPrefixes, that |-> FALSE] >>

\* bounds of the theme patterns' group `([^.!?]{20,80})`
ThemeMinLen == 20
ThemeMaxLen == 80
\* bounds of the first-sentence pattern's `[^.!?]{10,80}`
SentenceMinLen == 10
SentenceMaxLen == 80
\* `section[:500]`
PreviewLen == 500
\* `generated_title[:60]`, `first_line.group(1)[:60]`
TitleCap == 60

----------------------------------------------------------------------------
(* parse_innovations_and_notes
   (src/scripts/generate_innovations_single_video.py, and the variant of
    src/scripts/generate_innovations_pipeline.py) *)

\* line 384: the heading pattern first, the bold pattern when it matches nowhere
TitleMatchNotes(section) == OrElse(HeadingSearch(section), BoldSearch(section))

\* the length of the prefix among `prefixes` that matches at i, 0 when none
PrefixLenAt(s, i, prefixes) ==
    IF \E P \in prefixes : LitAtCI(s, i, P)
    THEN Len(CHOOSE P \in prefixes : LitAtCI(s, i, P))
    ELSE 0

\* group 1 of a theme pattern may start at g when the run of characters
\* outside [.!?] from g to the sentence end e is 20 to 80 long
ThemeGood(s, g, e) ==
    g <= Len(s) /\ e - g >= ThemeMinLen /\ e - g <= ThemeMaxLen

\* the start of group 1 after `that\s+` at position t, 0 when the pattern has
\* no such part, `that` is not there or no start is good
ThemeThatStart(s, pat, t, e) ==
    IF pat.that /\ LitAtCI(s, t, That)
    THEN Greatest(t + Len(That) + 1, t + Len(That) + WsRun(s, t + Len(That)),
                  LAMBDA g : ThemeGood(s, g, e))
    ELSE 0

\* \s+ and (?:that\s+)? are greedy: the start after `that` is tried first
ThemePick(i, e, gThat, gPlain) ==
    IF gThat # 0 THEN Match(i, e, gThat, e - 1)
    ELSE IF gPlain # 0 THEN Match(i, e, gPlain, e - 1)
    ELSE NoMatch

\* the rest of a theme pattern after its prefix, which ends before q: m
\* whitespace characters follow q, the sentence ends at e.  Every candidate
\* start of group 1 lies in one run of characters outside [.!?], which the
\* group must fill; the greatest good start is the one re takes.
ThemeGroup(s, i, pat, q, m, e) ==
    IF m = 0 \/ e = 0 THEN NoMatch
    ELSE ThemePick(i, e, ThemeThatStart(s, pat, q + m, e),
                   Greatest(q + 1, q + m, LAMBDA g : ThemeGood(s, g, e)))

ThemeAfter(s, i, pat, q) ==
    IF q = i \/ q > Len(s) THEN NoMatch
    ELSE ThemeGroup(s, i, pat, q, WsRun(s, q), NextSentenceEnd(s, q))

\* a theme pattern at position i:  <prefix>\s+(?:that\s+)?([^.!?]{20,80})[.!?]
ThemeAt(s, i, pat) == ThemeAfter(s, i, pat, i + PrefixLenAt(s, i, pat.prefixes))

\* re.search(pattern, s, re.IGNORECASE)
ThemeSearch(s, pat) == Search(s, LAMBDA t, i : ThemeAt(t, i, pat))

\* the first-sentence match at i whose sentence ends at e
FirstSentenceClose(i, e) ==
    IF e = 0 \/ e - (i + 3) < SentenceMinLen \/ e - (i + 3) > SentenceMaxLen
    THEN NoMatch
    ELSE Match(i, e, i + 2, e - 1)

\* r'\n\n([A-Z][^.!?]{10,80})[.!?]' at position i
FirstSentenceAt(s, i) ==
    IF ~(i + 3 <= Len(s) /\ s[i] = "\n" /\ s[i + 1] = "\n" /\ IsUpper(s[i + 2]))
    THEN NoMatch
    ELSE FirstSentenceClose(i, NextSentenceEnd(s, i + 3))

\* line 415: re.search(r'\n\n([A-Z][^.!?]{10,80})[.!?]', section)
FirstSentenceSearch(s) == Search(s, FirstSentenceAt)

\* lines 406-409: the stripped group, cut to 60 characters and capitalized
\* unless it starts with an upper-case letter.  A blank group strips to the
\* empty string, and `generated_title[0]` raises IndexError.
SynthFromTheme(g) ==
    IF Len(g) = 0 THEN [kind |-> "raise", title |-> <<>>]
    ELSE [kind |-> "title",
          title |-> IF ~IsUpper(g[1]) THEN Capitalize(Prefix(g, TitleCap))
                    ELSE Prefix(g, TitleCap)]

\* lines 415-420: the first capitalized sentence, or nothing
SynthFromFirstLine(section, first_line) ==
    IF first_line.ok
    THEN [kind |-> "title", title |-> Prefix(Group1(section, first_line), TitleCap)]
    ELSE [kind |-> "none", title |-> <<>>]

\* lines 403-420: j is the first theme pattern that matches in the preview,
\* 0 when none does
SynthPick(section, body_preview, j) ==
    IF j # 0
    THEN SynthFromTheme(Strip(Group1(body_preview,
                                     ThemeSearch(body_preview, theme_patterns[j]))))
    ELSE SynthFromFirstLine(section, FirstSentenceSearch(section))

SynthFromPreview(section, body_preview) ==
    SynthPick(section, body_preview,
              Least(1, Len(theme_patterns),
                    LAMBDA j : ThemeSearch(body_preview, theme_patterns[j]).ok))

\* lines 395-420: the title synthesized for a section whose matched title is a
\* formatting artifact.  kind "title": the new title; kind "none": neither
\* attempt found one (the section is skipped); kind "raise": IndexError
SynthTitle(section) == SynthFromPreview(section, Prefix(section, PreviewLen))

\* lines 423-424 with token = title_match.group(0): the body starts after the
\* first occurrence of the token in the section
BodyAfterToken(section, token) ==
    Strip(From(section, Find(section, token) + Len(token)))

BodyAfterFind(section, m) == BodyAfterToken(section, Group0(section, m))

\* the note test with 100 in place of 400
IsNoteShort(text) ==
    /\ Len(text) < 100
    /\ ~Contains(text, KeyInsightColon)
    /\ ~Contains(text, ThinkAboutItColon)

\* a note test without the length limit
IsNoteAnyLength(text) ==
    /\ ~Contains(text, KeyInsightColon)
    /\ ~Contains(text, ThinkAboutItColon)

\* line 432 (and 438): the test a following section passes to become a note
IsNote(text) ==
    /\ Len(text) < MaxNoteLen
    /\ ~Contains(text, KeyInsightColon)
    /\ ~Contains(text, ThinkAboutItColon)

\* the k-th section as a candidate note: ok iff it exists and passes the test
NoteOf(text) == [ok |-> IsNote(text), text |-> text]

NoteAt(secs, k) ==
    IF k <= Len(secs) THEN NoteOf(Strip(secs[k])) ELSE [ok |-> FALSE, text |-> <<>>]

\* a skip path without `i += 1`
SkipStepStuck(i) == [kind |-> "skip", next |-> i, art |-> <<>>]

\* the outcome of an iteration that appends nothing
SkipStep(i) == [kind |-> "skip", next |-> i + 1, art |-> <<>>]

\* the second following section looked at whether or not the first was taken
EmitWithNotesUnnested(i, title, body, n1, n2) ==
    [kind |-> "emit",
     next |-> i + 1 + (IF n1.ok THEN 1 ELSE 0) + (IF n2.ok THEN 1 ELSE 0),
     art |-> [title |-> title, body |-> body,
              note1 |-> IF n1.ok THEN n1.text ELSE <<>>,
              note2 |-> IF n2.ok THEN n2.text ELSE <<>>,
              sec |-> i]]

\* the notes attached without `i += 1`: the scan goes on at the next section
EmitWithNotesNoAdvance(i, title, body, n1, n2) ==
    [kind |-> "emit",
     next |-> i + 1,
     art |-> [title |-> title, body |-> body,
              note1 |-> IF n1.ok THEN n1.text ELSE <<>>,
              note2 |-> IF n1.ok /\ n2.ok THEN n2.text ELSE <<>>,
              sec |-> i]]

\* lines 426-449: n1, n2 are the two following sections as candidate notes;
\* the second is looked at only when the first was taken
EmitWithNotes(i, title, body, n1, n2) ==
    [kind |-> "emit",
     next |-> i + 1 + (IF n1.ok THEN 1 ELSE 0) + (IF n1.ok /\ n2.ok THEN 1 ELSE 0),
     art |-> [title |-> title, body |-> body,
              note1 |-> IF n1.ok THEN n1.text ELSE <<>>,
              note2 |-> IF n1.ok /\ n2.ok THEN n2.text ELSE <<>>,
              sec |-> i]]

\* lines 422-449
EmitStep(secs, i, section, m, title) ==
    EmitWithNotes(i, title, BodyAfterFind(section, m),
                  NoteAt(secs, i + 1), NoteAt(secs, i + 2))

\* lines 412-420, single_video
SynthStep(secs, i, section, m, syn) ==
    IF syn.kind = "raise" THEN [kind |-> "raise", next |-> i, art |-> <<>>]
    ELSE IF syn.kind = "none" THEN SkipStep(i)
    ELSE EmitStep(secs, i, section, m, syn.title)

\* line 393: an artifact title is replaced by a synthesized one (synth,
\* single_video) or the section is skipped (pipeline lines 397-399)
TitleStep(secs, i, synth, section, m, title) ==
    IF LowerStr(title) \notin ArtifactTitles THEN EmitStep(secs, i, section, m, title)
    ELSE IF ~synth THEN SkipStep(i)
    ELSE SynthStep(secs, i, section, m, SynthTitle(section))

\* a section without a title match given a synthesized title, its whole text
\* as the body
SynthUntitled(secs, i, section, syn) ==
    IF syn.kind = "raise" THEN [kind |-> "raise", next |-> i, art |-> <<>>]
    ELSE IF syn.kind = "none" THEN SkipStep(i)
    ELSE EmitWithNotes(i, syn.title, section, NoteAt(secs, i + 1), NoteAt(secs, i + 2))

\* title synthesis tried also when neither title pattern matches
MatchStepSynth(secs, i, synth, section, m) ==
    IF m.ok THEN TitleStep(secs, i, synth, section, m, TitleOf(section, m))
    ELSE IF ~synth THEN SkipStep(i)
    ELSE SynthUntitled(secs, i, section, SynthTitle(section))

\* lines 386-390
MatchStep(secs, i, synth, section, m) ==
    IF ~m.ok THEN SkipStep(i)
    ELSE TitleStep(secs, i, synth, section, m, TitleOf(section, m))

\* lines 378-384
SectionStep(secs, i, synth, section) ==
    IF Len(section) = 0 \/ Len(section) < MinNotesSectionLen THEN SkipStep(i)
    ELSE MatchStep(secs, i, synth, section, TitleMatchNotes(section))

\* lines 376-449, one iteration of the while loop at index i (1-based), with
\* title synthesis (synth = TRUE, single_video) or without (pipeline).
\*   kind "skip": nothing appended; "emit": `art` appended; "raise": exception.
\*   next: the value of i at the start of the next iteration.
NotesStep(secs, i, synth) == SectionStep(secs, i, synth, Strip(secs[i]))

\* what the loop returns when its iteration had outcome st and the
\* iterations after it returned rest
NotesResult(st, rest) ==
    IF st.kind = "raise" THEN [raised |-> TRUE, out |-> <<>>]
    ELSE IF rest.raised THEN rest
    ELSE IF st.kind = "emit" THEN [raised |-> FALSE, out |-> <<st.art>> \o rest.out]
    ELSE rest

RECURSIVE NotesLoop(_, _, _)
\* the iteration with outcome st, then the loop from st.next
NotesFrom(secs, st, synth) ==
    NotesResult(st, IF st.kind = "raise" THEN [raised |-> TRUE, out |-> <<>>]
                    ELSE NotesLoop(secs, st.next, synth))

\* lines 374-451: `while i < len(sections)`; the result is the list returned,
\* or raised = TRUE when an iteration raised
NotesLoop(secs, i, synth) ==
    IF i > Len(secs) THEN [raised |-> FALSE, out |-> <<>>]
    ELSE NotesFrom(secs, NotesStep(secs, i, synth), synth)

\* generate_innovations_single_video.py:366-451
parse_innovations_and_notes(text) == NotesLoop(Split(text), 1, TRUE)

\* generate_innovations_pipeline.py:370-462
parse_innovations_and_notes_pipeline(text) == NotesLoop(Split(text), 1, FALSE)

----------------------------------------------------------------------------
(* parse_innovation_body  (generate_innovations_single_video.py:454-478,
   identical in generate_innovations_pipeline.py:465-493) *)

\* position e is the end of a line that a blank line follows
BlankLineAfter(s, e) ==
    e + 2 <= Len(s) /\ s[e + 1] = "\n" /\ s[e + 2] = "\n"

InsightClose(s, i, g) ==
    IF g = 0 THEN NoMatch ELSE Match(i, EndOfLine(s, g), g, EndOfLine(s, g))

\* r'Key Insight:\s*(.+?)(?=\n\n)' with re.IGNORECASE, at position i: group 1
\* is a non-empty run without a newline that a blank line follows; \s* is
\* greedy
InsightAt(s, i) ==
    IF ~LitAtCI(s, i, KeyInsightColon) THEN NoMatch
    ELSE InsightClose(s, i,
             Greatest(i + Len(KeyInsightColon),
                      i + Len(KeyInsightColon) + WsRun(s, i + Len(KeyInsightColon)),
                      LAMBDA g : g <= Len(s) /\ s[g] # "\n"
                                 /\ BlankLineAfter(s, EndOfLine(s, g))))

InsightSearch(s) == Search(s, InsightAt)

\* the first position >= l where "\n\n**Summary" stands, 0 when nowhere
SummaryAhead(s, l) ==
    Least(l, Len(s), LAMBDA k : LitAtCI(s, k, BlankThenBoldSummary))

ReflectionClose(s, i, g) ==
    IF g = 0 THEN NoMatch
    ELSE Match(i, SummaryAhead(s, g + 1) - 1, g, SummaryAhead(s, g + 1) - 1)

\* r'\*\*Think about it:\*\*\s*(.+?)(?=\n\n\*\*Summary)' with DOTALL and
\* IGNORECASE, at position i: group 1 is the shortest non-empty text that
\* "\n\n**Summary" follows
ReflectionAt(s, i) ==
    IF ~LitAtCI(s, i, BoldThinkAboutIt) THEN NoMatch
    ELSE ReflectionClose(s, i,
             Greatest(i + Len(BoldThinkAboutIt),
                      i + Len(BoldThinkAboutIt) + WsRun(s, i + Len(BoldThinkAboutIt)),
                      LAMBDA g : g <= Len(s) /\ SummaryAhead(s, g + 1) # 0))

ReflectionSearch(s) == Search(s, ReflectionAt)

\* group 1 from g to where `$` (no MULTILINE) matches: the end of the string,
\* or just before a final newline
SummaryClose(s, i, g) ==
    IF g = 0 THEN NoMatch
    ELSE IF s[Len(s)] = "\n" /\ g <= Len(s) - 1 THEN Match(i, Len(s) - 1, g, Len(s) - 1)
    ELSE Match(i, Len(s), g, Len(s))

\* where group 1 starts after m whitespace characters from q: after all of
\* them, or, when they run to the end of the string, at its last character
SummaryGroupStart(s, q, m) ==
    IF q + m <= Len(s) THEN q + m ELSE IF m >= 1 THEN Len(s) ELSE 0

\* r'\*\*Summary:\*\*\s*(.+?)$' with DOTALL and IGNORECASE, at position i
SummaryAt(s, i) ==
    IF ~LitAtCI(s, i, BoldSummaryColon) THEN NoMatch
    ELSE SummaryClose(s, i,
             SummaryGroupStart(s, i + Len(BoldSummaryColon),
                               WsRun(s, i + Len(BoldSummaryColon))))

SummarySearch(s) == Search(s, SummaryAt)

\* group 1 of m stripped, "" when there is no match
StrippedGroup(s, m) == IF m.ok THEN Strip(Group1(s, m)) ELSE <<>>

\* the body cut after the insight also when no reflection matches
InnovationFieldsPartial(body, scripture_match, reflection_match, prayer_match) ==
    [scripture |-> StrippedGroup(body, scripture_match),
     reflection |-> StrippedGroup(body, reflection_match),
     prayer |-> StrippedGroup(body, prayer_match),
     main_text |-> IF scripture_match.ok /\ reflection_match.ok
                   THEN Strip(Slice(body, scripture_match.end + 1,
                                    reflection_match.start - 1))
                   ELSE IF scripture_match.ok
                   THEN Strip(Slice(body, scripture_match.end + 1, Len(body)))
                   ELSE body]

\* lines 458-478
InnovationFields(body, scripture_match, reflection_match, prayer_match) ==
    [scripture |-> StrippedGroup(body, scripture_match),
     reflection |-> StrippedGroup(body, reflection_match),
     prayer |-> StrippedGroup(body, prayer_match),
     main_text |-> IF scripture_match.ok /\ reflection_match.ok
                   THEN Strip(Slice(body, scripture_match.end + 1,
                                    reflection_match.start - 1))
                   ELSE body]

\* lines 454-478
parse_innovation_body(body) ==
    InnovationFields(body, InsightSearch(body), ReflectionSearch(body),
                     SummarySearch(body))

----------------------------------------------------------------------------
(* save_articles  (src/core/generator.py) *)

RECURSIVE Cat(_)
\* "".join(parts)
Cat(parts) == IF parts = <<>> THEN <<>> ELSE Head(parts) \o Cat(Tail(parts))

RECURSIVE RenderFrom(_, _)
\* lines 32-36: what the loop writes for the i-th article and those after it
RenderFrom(arts, i) ==
    IF i > Len(arts) THEN <<>>
    ELSE Chars("**") \o arts[i].title \o Chars("**\n\n")
         \o arts[i].body \o Chars("\n\n")
         \o (IF i < Len(arts) THEN Chars("---\n\n") ELSE <<>>)
         \o RenderFrom(arts, i + 1)

\* lines 46-54: the header row
CsvHeader ==
    <<"id", "source_title", "source_url", "video_url", "source_type",
      "article_title", "article_body">>

\* lines 39-40: the first 16 hex digits of the SHA-256 of the URL; modelled
\* as a value that determines, and is determined by, the URL
make_id(url) == <<"sha256_16", url>>

\* lines 58-66: the row written for one article
CsvRow(src, art) ==
    <<make_id(src.url), src.title, src.url, src.url, src.type, art.title, art.body>>

\* a save_articles that opens the master CSV for writing, not for appending
CsvAppendTruncating(csv, file_exists, src, arts) ==
    <<CsvHeader>> \o [i \in 1..Len(arts) |-> CsvRow(src, arts[i])]

\* lines 43-66: the rows of the master CSV after the `with` block, entered
\* with the file holding the rows csv: the header when file_exists is false,
\* then one row per article, appended
CsvAppend(csv, file_exists, src, arts) ==
    csv \o (IF file_exists THEN <<>> ELSE <<CsvHeader>>)
        \o [i \in 1..Len(arts) |-> CsvRow(src, arts[i])]

\* lines 42-66: the rows of the master CSV after a call that nothing
\* interleaves with; the file exists iff it has rows
CsvAfterSave(csv, src, arts) == CsvAppend(csv, csv # <<>>, src, arts)

----------------------------------------------------------------------------
(* Inputs *)

\* the most sections joined into one input
MaxSections == 2

\* n copies of the character c
Fill(c, n) == [i \in 1..n |-> c]

\* Sections a model reply may hold.  Lengths are taken at and around the
\* thresholds of the three parsers.
SectionLibrary ==
    << \* a bold title and a body of exactly the simple-mode minimum
       Chars("**T**\n\n") \o Fill("a", MinBodyLen),
       \* a heading title
       Chars("# X y\n\n") \o Fill("b", MinBodyLen),
       \* a heading line above a bold line
       Chars("# X\n**Y**\n") \o Fill("c", MinBodyLen),
       \* a body one character short of the simple-mode minimum
       Chars("**T**\n\n") \o Fill("d", MinBodyLen - 1),
       \* a long heading line and a 40-character body
       Chars("# ") \o Fill("H", MinSectionLen - 35) \o Chars("\n") \o Fill("e", MinFileBodyLen - 10),
       \* no title, one character short of the section minimum
       Fill("f", MinSectionLen - 1),
       \* a heading and a section between the notes-mode and simple-mode minimum
       Chars("# X\n") \o Fill("g", MinNotesSectionLen + 10),
       \* no title, long enough
       Fill("h", MinBodyLen + 20),
       \* a bold pair that holds only a blank
       Chars("** **\n\n") \o Fill("i", MinBodyLen),
       \* several bold pairs on the first bold line
       Chars("**A** and **B**\n\n") \o Fill("j", MinBodyLen),
       \* the text of the heading line occurs earlier, inside another line
       Chars("x # X\n# X\n") \o Fill("k", MinBodyLen),
       \* text before the title line, padded with whitespace
       Chars(" \nintro\n**T **\n\n ") \o Fill("l", MinBodyLen) \o Chars("\n "),
       \* an artifact title and a lead-in phrase followed by blanks only
       Chars("**Key Insight**\n\nHere's something") \o Fill(" ", ThemeMinLen + 1)
           \o Chars(". ") \o Fill("m", MinBodyLen),
       \* an artifact title and a lead-in phrase with a clause
       Chars("# Innovation\n\nJesus said ") \o Fill("n", ThemeMinLen)
           \o Chars(". ") \o Fill("o", MinBodyLen),
       \* a short plain paragraph
       Fill("p", MinNotesSectionLen - 20)
    >>

\* the delimiter lines put between sections
JoinDelims == { Chars("\n---\n"), Chars("\n\n-----\n\n") }

RECURSIVE JoinFrom(_, _, _)
\* the sections picked by `pick` (indices into the library), from the i-th
\* on, each but the last followed by the delimiter d
JoinFrom(pick, d, i) ==
    IF i > Len(pick) THEN <<>>
    ELSE SectionLibrary[pick[i]]
         \o (IF i < Len(pick) THEN d \o JoinFrom(pick, d, i + 1) ELSE <<>>)

Picks == UNION { [1..n -> 1..Len(SectionLibrary)] : n \in 1..MaxSections }

Inputs == {<<>>} \cup { JoinFrom(pick, d, 1) : pick \in Picks, d \in JoinDelims }

\* the sources an input may come from: source_id, source_title, source_url,
\* source_type of generate_for_source
Sources ==
    { [id |-> "vid1", title |-> "Talk", url |-> "https://y/vid1", type |-> "video"],
      [id |-> "art1", title |-> "Post", url |-> "https://s/art1", type |-> "article"] }

\* a master CSV left by an earlier run
PriorCsv ==
    <<CsvHeader,
      <<make_id("https://y/old"), "Old", "https://y/old", "https://y/old", "video",
        Chars("Old title"), Chars("old body")>>>>

----------------------------------------------------------------------------
(* Generation jobs  (src/backend/app.py, src/core/generator.py) *)

\* the most jobs api_generate creates
MaxJobs == 2

JobIds == 1..MaxJobs

\* what the model call of generate_articles (ai_models.py:113-134) gives:
\*   kind "raise": client.chat.completions.create raises;
\*   kind "none":  it returns a falsy response;
\*   kind "reply": it returns a response whose message content is `text`
NoReply == [kind |-> "pending", text |-> <<>>]

\* a file that does not exist
NoFile == [exists |-> FALSE, text |-> <<>>]

\* a job id api_generate has not used yet.
\*   status, error, count: jobs[job_id]["status"], ["error"], ["result"]["count"]
\*   src:      the source of the request
\*   at:       where the job's worker thread stands
\*   reply:    what the model call gave this job
\*   returned: what generate_articles returned to generate_for_source
\*   dumped:   what this job's call of generate_articles wrote to the debug file
\*   progress: the messages of the job's ProgressLogger, by kind
\*   file_exists: the local `file_exists` of the job's call of save_articles
NoJob ==
    [status |-> "none", error |-> "", count |-> 0,
     src |-> [id |-> "", title |-> "", url |-> "", type |-> ""],
     at |-> "none", reply |-> NoReply, returned |-> <<>>, dumped |-> NoFile,
     progress |-> <<>>, file_exists |-> FALSE]

NoJobs == [j \in JobIds |-> NoJob]

----------------------------------------------------------------------------
(* Files of the articles and transcripts directories  (src/core/utils.py,
   src/core/generator.py, src/backend/app.py) *)

\* utils.py:6: `name[:180]`
NameLimit == 180

\* utils.py:4: the characters replaced by a hyphen
Forbidden == {"\\", "/", ":", "*", "?", "\"", "<", ">", "|"}

\* utils.py:4: re.sub(r"[\\/:*?\"<>|]", "-", name)
Hyphenated(name) == [i \in 1..Len(name) |-> IF name[i] \in Forbidden THEN "-" ELSE name[i]]

RECURSIVE OneSpaceFrom(_, _)
\* utils.py:5: re.sub(r"\s+", " ", name), from position i on
OneSpaceFrom(name, i) ==
    IF i > Len(name) THEN <<>>
    ELSE IF ~IsSpace(name[i]) THEN <<name[i]>> \o OneSpaceFrom(name, i + 1)
    ELSE IF i > 1 /\ IsSpace(name[i - 1]) THEN OneSpaceFrom(name, i + 1)
    ELSE <<" ">> \o OneSpaceFrom(name, i + 1)

\* utils.py:3-6
sanitize_filename(name) == Prefix(Strip(OneSpaceFrom(Hyphenated(name), 1)), NameLimit)

\* the file names <safe title>.txt the sources give
FileNames == { sanitize_filename(Chars(src.title)) : src \in Sources }

\* no article text file yet
NoTextFiles == [n \in FileNames |-> NoFile]

\* what _parse_transcript_header (app.py:401-414) reads from a transcript file
\* generate_for_source wrote (generator.py:141-146)
NoTranscript == [exists |-> FALSE, title |-> <<>>, source_id |-> <<>>, source_type |-> ""]

NoTranscripts == [n \in FileNames |-> NoTranscript]

\* no storage route has been called.
\*   route:     "detail" (get_video_detail) | "delete" (delete_video)
\*   calls:     how many calls there have been
\*   source_id: the path parameter of the last call
\*   status:    200, or the status of the HTTPException raised
\*   title:     the source_title the call found
\*   articles:  the "articles" of get_video_detail's answer
\*   reparsed:  TRUE iff the call took the fallback at app.py:270-271
NoResponse ==
    [route |-> "none", calls |-> 0, source_id |-> [kind |-> "none", url |-> "", text |-> <<>>],
     status |-> 0, title |-> <<>>, articles |-> <<>>, reparsed |-> FALSE]

\* no notes-mode loop under way
NoScan == [i |-> 0, iters |-> 0, synth |-> FALSE]

----------------------------------------------------------------------------
(* The state machine: one parser is applied to the input, and the articles
   parse_articles returned are saved *)

Init ==
    /\ content \in Inputs
    /\ pc = "input"
    /\ fn = "none"
    /\ sections = <<>>
    /\ articles = <<>>
    /\ fields = [scripture |-> <<>>, main_text |-> <<>>, reflection |-> <<>>, prayer |-> <<>>]
    /\ raised = FALSE
    /\ articles_file = <<>>
    /\ master_csv \in {<<>>, PriorCsv}
    /\ pairs = <<>>
    /\ jobs = NoJobs
    /\ debug_file = NoFile
    /\ text_files = NoTextFiles
    /\ transcripts = NoTranscripts
    /\ response = NoResponse
    /\ scan = NoScan

\* articles = parse_articles(content)
ParseArticles ==
    /\ pc = "input"
    /\ pc' = "parsed"
    /\ fn' = "parse_articles"
    /\ sections' = Split(content)
    /\ articles' = parse_articles(content)
    /\ UNCHANGED <<scan, content, fields, raised, articles_file, master_csv, pairs, jobs, debug_file,
                   text_files, transcripts, response>>

\* articles = _parse_articles_from_file(content)
ParseArticlesFromFile ==
    /\ pc = "input"
    /\ pc' = "parsed"
    /\ fn' = "_parse_articles_from_file"
    /\ sections' = Split(content)
    /\ articles' = _parse_articles_from_file(content)
    /\ UNCHANGED <<scan, content, fields, raised, articles_file, master_csv, pairs, jobs, debug_file,
                   text_files, transcripts, response>>

\* innovations = parse_innovations_and_notes(content), single_video variant
ParseInnovationsAndNotes ==
    /\ pc = "input"
    /\ pc' = "parsed"
    /\ fn' = "parse_innovations_and_notes"
    /\ sections' = Split(content)
    /\ \E r \in {parse_innovations_and_notes(content)} :
          articles' = r.out /\ raised' = r.raised
    /\ UNCHANGED <<scan, content, fields, articles_file, master_csv, pairs, jobs, debug_file,
                   text_files, transcripts, response>>

\* innovations = parse_innovations_and_notes(content), pipeline variant
ParseInnovationsAndNotesPipeline ==
    /\ pc = "input"
    /\ pc' = "parsed"
    /\ fn' = "parse_innovations_and_notes_pipeline"
    /\ sections' = Split(content)
    /\ \E r \in {parse_innovations_and_notes_pipeline(content)} :
          articles' = r.out /\ raised' = r.raised
    /\ UNCHANGED <<scan, content, fields, articles_file, master_csv, pairs, jobs, debug_file,
                   text_files, transcripts, response>>

\* parsed = parse_innovation_body(content)
ParseInnovationBody ==
    /\ pc = "input"
    /\ pc' = "parsed"
    /\ fn' = "parse_innovation_body"
    /\ fields' = parse_innovation_body(content)
    /\ UNCHANGED <<scan, content, sections, articles, raised, articles_file, master_csv, pairs, jobs, debug_file,
                   text_files, transcripts, response>>

\* generator.py:178-195: save_articles is called with the articles
\* parse_articles returned, and only when there is at least one
SaveArticles ==
    /\ pc = "parsed"
    /\ fn = "parse_articles"
    /\ articles # <<>>
    /\ \E src \in Sources :
          /\ articles_file' = RenderFrom(articles, 1)
          /\ master_csv' = CsvAfterSave(master_csv, src, articles)
    /\ pc' = "saved"
    /\ UNCHANGED <<scan, content, fn, sections, articles, fields, raised, pairs, jobs, debug_file,
                   text_files, transcripts, response>>

Next ==
    \/ ParseArticles
    \/ ParseArticlesFromFile
    \/ ParseInnovationsAndNotes
    \/ ParseInnovationsAndNotesPipeline
    \/ ParseInnovationBody
    \/ SaveArticles

Spec == Init /\ [][Next]_vars

----------------------------------------------------------------------------
(* Rendering title/body pairs and parsing them back: the text save_articles
   writes for the pairs is the input of parse_articles *)

\* the most pairs rendered into one input
MaxPairs == 2

\* titles a pair may hold: plain, with an asterisk inside, ending in one, padded, holding
\* bold markers, blank, a lone asterisk
PairTitles ==
    { Chars("T"), Chars("x*y z"), Chars("a*"), Chars(" T "), Chars("A** and **B"),
      Chars(" "), Chars("*") }

\* bodies a pair may hold: exactly 100 characters; 100 characters of which 98
\* remain after trimming; three lines, one of two hyphens; two paragraphs
\* around a line of three hyphens
PairBodies ==
    { Fill("a", 100),
      Chars(" ") \o Fill("b", 98) \o Chars(" "),
      Fill("c", 60) \o Chars("\n--\n") \o Fill("c", 40),
      Fill("d", 50) \o Chars("\n---\n") \o Fill("d", 50) }

PairSeqs ==
    UNION { [1..n -> [title : PairTitles, body : PairBodies]] : n \in 1..MaxPairs }

InitRoundTrip ==
    /\ pairs \in PairSeqs
    /\ jobs = NoJobs
    /\ debug_file = NoFile
    /\ text_files = NoTextFiles
    /\ transcripts = NoTranscripts
    /\ response = NoResponse
    /\ scan = NoScan
    /\ content = RenderFrom(pairs, 1)
    /\ pc = "input"
    /\ fn = "none"
    /\ sections = <<>>
    /\ articles = <<>>
    /\ fields = [scripture |-> <<>>, main_text |-> <<>>, reflection |-> <<>>, prayer |-> <<>>]
    /\ raised = FALSE
    /\ articles_file = <<>>
    /\ master_csv = <<>>

NextRoundTrip == ParseArticles \/ SaveArticles

SpecRoundTrip == InitRoundTrip /\ [][NextRoundTrip]_vars

----------------------------------------------------------------------------
(* Properties *)

\* the title and body of each article, without the section index
TitlesAndBodies(arts) ==
    [i \in 1..Len(arts) |-> [title |-> arts[i].title, body |-> arts[i].body]]

\* the section an article came from, trimmed
SectionOf(a) == Strip(sections[a.sec])

\* t has a line made only of three or more hyphens
HasRuleLine(t) ==
    \E i \in 1..Len(t) : \E j \in i..Len(t) :
        /\ j - i + 1 >= 3
        /\ \A k \in i..j : t[k] = "-"
        /\ (i = 1 \/ t[i - 1] = "\n")
        /\ (j = Len(t) \/ t[j + 1] = "\n")

\* a title as C1 takes it: non-empty, trimmed, on one line, free of "**"
ClaimedTitle(t) ==
    /\ Len(t) >= 1
    /\ Strip(t) = t
    /\ \A i \in 1..Len(t) : t[i] # "\n"
    /\ ~Contains(t, Chars("**"))

\* a body as C1 takes it: trimmed, 100 characters at least, no rule line
ClaimedBody(b) == Strip(b) = b /\ Len(b) >= 100 /\ ~HasRuleLine(b)

ParsedBy(f) == pc \in {"parsed", "saved"} /\ fn = f

NotesParsers == {"parse_innovations_and_notes", "parse_innovations_and_notes_pipeline"}

\* C1 as stated: pairs with a non-empty, trimmed, one-line title free of "**"
\* and a trimmed body of 100 characters or more without a rule line, rendered
\* and joined by the delimiter line, parse back to exactly those pairs in
\* order.
RoundTripAsClaimed ==
    (ParsedBy("parse_articles")
     /\ \A i \in 1..Len(pairs) :
            ClaimedTitle(pairs[i].title) /\ ClaimedBody(pairs[i].body))
    => TitlesAndBodies(articles) = pairs

\* C1 amended: the same round trip, for titles that in addition do not end in
\* an asterisk.
RoundTrip ==
    (ParsedBy("parse_articles")
     /\ \A i \in 1..Len(pairs) :
            /\ ClaimedTitle(pairs[i].title)
            /\ pairs[i].title[Len(pairs[i].title)] # "*"
            /\ ClaimedBody(pairs[i].body))
    => TitlesAndBodies(articles) = pairs

\* C1 witness: two well-formed pairs with different bodies have been rendered
\* and parsed
RoundTripReached ==
    /\ ParsedBy("parse_articles")
    /\ Len(pairs) = 2
    /\ pairs[1].title # pairs[2].title
    /\ pairs[1].body # pairs[2].body
    /\ \A i \in 1..2 :
          /\ ClaimedTitle(pairs[i].title)
          /\ pairs[i].title[Len(pairs[i].title)] # "*"
          /\ ClaimedBody(pairs[i].body)
    /\ Len(articles) = 2

\* C2 as stated: every parser returns without raising, and the empty input
\* gives an empty article list.
ParsingTotal ==
    pc = "parsed" => (~raised /\ (content = <<>> => articles = <<>>))

\* the articles come from sections of strictly increasing index
InSectionOrder(arts) ==
    \A i \in 1..Len(arts) : \A j \in 1..Len(arts) : i < j => arts[i].sec < arts[j].sec

\* what the text file holds when the articles are written one after the
\* other, a rule between two of them
FileInOrder(arts) ==
    Cat([i \in 1..Len(arts) |->
            Chars("**") \o arts[i].title \o Chars("**\n\n") \o arts[i].body
            \o (IF i < Len(arts) THEN Chars("\n\n---\n\n") ELSE Chars("\n\n"))])

\* C3: the articles parse_articles returns are in the order of their
\* sections, and save_articles writes them to the text file and appends
\* their rows to the master CSV in that order.
OrderPreserved ==
    /\ ParsedBy("parse_articles") => InSectionOrder(articles)
    /\ pc = "saved" =>
          /\ articles_file = FileInOrder(articles)
          /\ Len(master_csv) > Len(articles)
          /\ \A i \in 1..Len(articles) :
                /\ master_csv[Len(master_csv) - Len(articles) + i][6] = articles[i].title
                /\ master_csv[Len(master_csv) - Len(articles) + i][7] = articles[i].body

\* C3 witness: two different articles have been saved after an earlier run's
\* rows
OrderPreservedReached ==
    /\ pc = "saved"
    /\ Len(articles) = 2
    /\ articles[1].body # articles[2].body
    /\ Len(master_csv) = 4

\* C4 as stated: every article parse_articles and the notes-mode parsers
\* emit has a title that is non-empty after trimming.
TitlesNonEmpty ==
    (pc = "parsed" /\ fn \in {"parse_articles"} \cup NotesParsers)
    => \A i \in 1..Len(articles) : Len(Strip(articles[i].title)) > 0

\* the title match parse_articles and _parse_articles_from_file use in the
\* trimmed section t: bold if bold matches anywhere, else heading
BoldFirst(t) == IF BoldSearch(t).ok THEN BoldSearch(t) ELSE HeadingSearch(t)

\* the title match the notes-mode parsers use: heading if it matches
\* anywhere, else bold
HeadingFirst(t) == IF HeadingSearch(t).ok THEN HeadingSearch(t) ELSE BoldSearch(t)

\* the text of t after the end of the match m, trimmed
AfterToken(t, m) == Strip(Slice(t, m.end + 1, Len(t)))

\* C5 as stated: no article has a trimmed body shorter than 100 characters in
\* parse_articles, or shorter than 50 in the notes-mode parsers.
BodyThresholdsAsClaimed ==
    /\ ParsedBy("parse_articles") =>
          \A i \in 1..Len(articles) : Len(Strip(articles[i].body)) >= 100
    /\ (pc = "parsed" /\ fn \in NotesParsers /\ ~raised) =>
          \A i \in 1..Len(articles) : Len(Strip(articles[i].body)) >= 50

\* C5 amended: in parse_articles no article has a trimmed body shorter than
\* 100 characters, and a section whose title pattern matched but whose body is
\* shorter is rejected; the notes-mode parsers have no threshold on the body:
\* they reject only sections shorter than 50 characters.
BodyThresholds ==
    /\ ParsedBy("parse_articles") =>
          /\ \A i \in 1..Len(articles) : Len(Strip(articles[i].body)) >= 100
          /\ \A k \in 1..Len(sections) :
                (BoldFirst(Strip(sections[k])).ok
                 /\ Len(AfterToken(Strip(sections[k]), BoldFirst(Strip(sections[k])))) < 100)
                => \A i \in 1..Len(articles) : articles[i].sec # k
    /\ (pc = "parsed" /\ fn \in NotesParsers) =>
          \A i \in 1..Len(articles) : Len(SectionOf(articles[i])) >= 50

\* C5 witness: parse_articles has rejected a titled section for its body
\* while keeping another section of the same input
BodyThresholdsReached ==
    /\ ParsedBy("parse_articles")
    /\ Len(sections) = 2
    /\ Len(articles) = 1
    /\ \E k \in 1..2 :
          /\ Len(Strip(sections[k])) >= 80
          /\ BoldFirst(Strip(sections[k])).ok
          /\ Len(AfterToken(Strip(sections[k]), BoldFirst(Strip(sections[k])))) = 99
          /\ articles[1].sec # k

\* C6 as stated: in parse_articles, _parse_articles_from_file and the
\* notes-mode parsers no article comes from a section whose trimmed length is
\* below 80.
SectionMinimumAsClaimed ==
    (pc = "parsed" /\ fn \in {"parse_articles", "_parse_articles_from_file"} \cup NotesParsers)
    => \A i \in 1..Len(articles) : Len(SectionOf(articles[i])) >= 80

\* C6 amended: no article comes from a section whose trimmed length is below
\* 80 in parse_articles and _parse_articles_from_file, or below 50 in the
\* notes-mode parsers.
SectionMinimum ==
    /\ (pc \in {"parsed", "saved"} /\ fn \in {"parse_articles", "_parse_articles_from_file"})
          => \A i \in 1..Len(articles) : Len(SectionOf(articles[i])) >= 80
    /\ (pc = "parsed" /\ fn \in NotesParsers)
          => \A i \in 1..Len(articles) : Len(SectionOf(articles[i])) >= 50

\* C6 witness: _parse_articles_from_file has passed over a section of 79
\* characters and kept the section after it
SectionMinimumReached ==
    /\ pc = "parsed"
    /\ fn = "_parse_articles_from_file"
    /\ Len(sections) = 2
    /\ Len(Strip(sections[1])) = 79
    /\ Len(articles) = 1
    /\ articles[1].sec = 2

\* C7: in parse_articles a section in which neither title pattern matches
\* yields no article and no error; no title is made up for it (every title is
\* the trimmed group of the match in its own section), and every other
\* section that has the length, a title match and the body is still parsed.
UntitledSkipped ==
    ParsedBy("parse_articles") =>
        /\ ~raised
        /\ \A i \in 1..Len(articles) :
              /\ BoldFirst(SectionOf(articles[i])).ok
              /\ articles[i].title =
                    Strip(Group1(SectionOf(articles[i]), BoldFirst(SectionOf(articles[i]))))
        /\ \A k \in 1..Len(sections) :
              IF ~BoldSearch(Strip(sections[k])).ok /\ ~HeadingSearch(Strip(sections[k])).ok
              THEN \A i \in 1..Len(articles) : articles[i].sec # k
              ELSE (Len(Strip(sections[k])) >= 80
                    /\ Len(AfterToken(Strip(sections[k]), BoldFirst(Strip(sections[k])))) >= 100)
                   => \E i \in 1..Len(articles) : articles[i].sec = k

\* C7 witness: a long first section without a title was skipped and the
\* second section parsed
UntitledSkippedReached ==
    /\ ParsedBy("parse_articles")
    /\ Len(sections) = 2
    /\ Len(Strip(sections[1])) >= 100
    /\ ~BoldSearch(Strip(sections[1])).ok
    /\ ~HeadingSearch(Strip(sections[1])).ok
    /\ Len(articles) = 1
    /\ articles[1].sec = 2

\* the title an article has when m is the title match of its section: the
\* trimmed group, which the notes-mode parsers replace when it is a
\* formatting artifact
TitleFrom(a, m, replaceable) ==
    \/ a.title = Strip(Group1(SectionOf(a), m))
    \/ replaceable /\ LowerStr(Strip(Group1(SectionOf(a), m))) \in ArtifactTitles

\* the section of a holds a "# X" line and, below it, a "**Y**" line
HeadingAboveBold(a) ==
    /\ HeadingSearch(SectionOf(a)).ok
    /\ BoldSearch(SectionOf(a)).ok
    /\ Group1(SectionOf(a), HeadingSearch(SectionOf(a))) = Chars("X")
    /\ Group1(SectionOf(a), BoldSearch(SectionOf(a))) = Chars("Y")

\* C8 as stated: in every parser variant the title comes from the bold
\* pattern whenever it matches somewhere in the section, so a section with a
\* "# X" line and a "**Y**" line gets title Y.
BoldFirstEverywhere ==
    (pc = "parsed" /\ fn \in {"parse_articles", "_parse_articles_from_file"} \cup NotesParsers)
    => \A i \in 1..Len(articles) :
          /\ BoldSearch(SectionOf(articles[i])).ok
                => TitleFrom(articles[i], BoldSearch(SectionOf(articles[i])),
                             fn \in NotesParsers)
          /\ HeadingAboveBold(articles[i]) => articles[i].title = Chars("Y")

\* C8 amended: parse_articles and _parse_articles_from_file take the title
\* from the bold pattern whenever it matches somewhere in the section and
\* from the heading pattern otherwise, so a section with a "# X" line and a
\* "**Y**" line gets title Y; the notes-mode parsers try the heading pattern
\* first and the bold pattern only when no heading matches, so there the same
\* section gets title X.
TitlePatternOrder ==
    /\ (pc \in {"parsed", "saved"} /\ fn \in {"parse_articles", "_parse_articles_from_file"})
       => \A i \in 1..Len(articles) :
             /\ BoldSearch(SectionOf(articles[i])).ok
                   => TitleFrom(articles[i], BoldSearch(SectionOf(articles[i])), FALSE)
             /\ (~BoldSearch(SectionOf(articles[i])).ok
                 /\ HeadingSearch(SectionOf(articles[i])).ok)
                   => TitleFrom(articles[i], HeadingSearch(SectionOf(articles[i])), FALSE)
             /\ HeadingAboveBold(articles[i]) => articles[i].title = Chars("Y")
    /\ (pc = "parsed" /\ fn \in NotesParsers)
       => \A i \in 1..Len(articles) :
             /\ HeadingSearch(SectionOf(articles[i])).ok
                   => TitleFrom(articles[i], HeadingSearch(SectionOf(articles[i])), TRUE)
             /\ ~HeadingSearch(SectionOf(articles[i])).ok
                   => TitleFrom(articles[i], BoldSearch(SectionOf(articles[i])), TRUE)
             /\ HeadingAboveBold(articles[i]) => articles[i].title = Chars("X")

\* C8 witness: parse_articles has returned an article for a section with a
\* "# X" line above a "**Y**" line
TitlePatternOrderReached ==
    /\ pc = "parsed"
    /\ fn = "parse_articles"
    /\ \E i \in 1..Len(articles) : HeadingAboveBold(articles[i])

\* C9 as stated: in parse_articles and in the notes-mode parsers the body of
\* every article is the text of its section after the end of the matched
\* title token, trimmed.
BodyAfterTitleToken ==
    /\ ParsedBy("parse_articles") =>
          \A i \in 1..Len(articles) :
              articles[i].body =
                  AfterToken(SectionOf(articles[i]), BoldFirst(SectionOf(articles[i])))
    /\ (pc = "parsed" /\ fn \in NotesParsers) =>
          \A i \in 1..Len(articles) :
              articles[i].body =
                  AfterToken(SectionOf(articles[i]), HeadingFirst(SectionOf(articles[i])))

\* where the first bold span of the line t ** closes: the least position
\* from 2 on at which a pair of asterisks stands
FirstPairClose(t) ==
    Least(2, Len(t) + 1, LAMBDA j : (t \o Chars("**"))[j] = "*"
                                    /\ (t \o Chars("**"))[j + 1] = "*")

\* the one pair rendered, when there is one
OnePair == pairs[1]

\* the input is one section  ** T **, blank line, B  with T non-empty and on
\* one line
OneBoldSection ==
    /\ ParsedBy("parse_articles")
    /\ Len(pairs) = 1
    /\ Len(sections) = 1
    /\ Len(OnePair.title) >= 1
    /\ \A i \in 1..Len(OnePair.title) : OnePair.title[i] # "\n"

\* C10 as stated: for a section "**T**", blank line, B with B of 100
\* characters or more, parse_articles returns title T trimmed and body B
\* trimmed.
ShortestBoldAsClaimed ==
    (OneBoldSection /\ Len(OnePair.body) >= 100)
    => TitlesAndBodies(articles) =
          <<[title |-> Strip(OnePair.title), body |-> Strip(OnePair.body)]>>

\* C10 amended: the bold title is the shortest span: of a first line
\* "**T**" that holds several pairs the title is the text up to the first
\* closing pair that leaves it non-empty, trimmed, and the body is all that
\* follows that pair, trimmed; when T is free of "**" and does not end in an
\* asterisk, and B trimmed is 100 characters or more, the title is T trimmed
\* and the body B trimmed.
ShortestBold ==
    (OneBoldSection /\ Len(Strip(OnePair.body)) >= 100)
    => /\ Len(articles) = 1
       /\ articles[1].title = Strip(Slice(OnePair.title, 1, FirstPairClose(OnePair.title) - 1))
       /\ articles[1].body =
             Strip(Slice(OnePair.title \o Chars("**\n\n") \o OnePair.body,
                         FirstPairClose(OnePair.title) + 2,
                         Len(OnePair.title) + 4 + Len(OnePair.body)))
       /\ (~Contains(OnePair.title, Chars("**"))
           /\ OnePair.title[Len(OnePair.title)] # "*")
          => /\ articles[1].title = Strip(OnePair.title)
             /\ articles[1].body = Strip(OnePair.body)

\* C10 witness: a first line with several pairs has been parsed, and the
\* title is the text of the first pair
ShortestBoldReached ==
    /\ OneBoldSection
    /\ OnePair.title = Chars("A** and **B")
    /\ Len(articles) = 1
    /\ articles[1].title = Chars("A")

----------------------------------------------------------------------------
(* Segmentation alone: short inputs made of hyphens, line breaks and blanks
   are split by parse_articles (lines 169-172), and the trimmed sections are
   joined by a delimiter line and split again *)

\* the most tokens put together into one input
MaxTokens == 5

\* the pieces an input is made of
Tokens ==
    { Chars("a"), Chars(" "), Chars("\n"), Chars("--"), Chars("---"), Chars("\n---\n") }

SegmentInputs ==
    {<<>>} \cup { Cat(ts) : ts \in UNION { [1..n -> Tokens] : n \in 1..MaxTokens } }

\* line 172: each section is trimmed before it is looked at
Trimmed(secs) == [k \in 1..Len(secs) |-> Strip(secs[k])]

\* the delimiter line the prompt asks for between articles
RuleDelim == Chars("\n---\n")

RECURSIVE JoinWith(_, _, _)
\* d.join(parts), from the i-th part on
JoinWith(parts, d, i) ==
    IF i > Len(parts) THEN <<>>
    ELSE parts[i] \o (IF i < Len(parts) THEN d \o JoinWith(parts, d, i + 1) ELSE <<>>)

InitSegment ==
    /\ content \in SegmentInputs
    /\ pc = "input"
    /\ fn = "none"
    /\ sections = <<>>
    /\ articles = <<>>
    /\ fields = [scripture |-> <<>>, main_text |-> <<>>, reflection |-> <<>>, prayer |-> <<>>]
    /\ raised = FALSE
    /\ articles_file = <<>>
    /\ master_csv = <<>>
    /\ pairs = <<>>
    /\ jobs = NoJobs
    /\ debug_file = NoFile
    /\ text_files = NoTextFiles
    /\ transcripts = NoTranscripts
    /\ response = NoResponse
    /\ scan = NoScan

\* parse_articles applied to text
ResplitOf(text) ==
    /\ content' = text
    /\ sections' = Split(text)
    /\ articles' = parse_articles(text)

\* the trimmed sections of the last call joined by the delimiter line, and
\* parse_articles applied to the result
Resplit ==
    /\ pc = "parsed"
    /\ fn = "parse_articles"
    /\ ResplitOf(JoinWith(Trimmed(sections), RuleDelim, 1))
    /\ pc' = "resplit"
    /\ UNCHANGED <<scan, fn, fields, raised, articles_file, master_csv, pairs, jobs, debug_file,
                   text_files, transcripts, response>>

NextSegment == ParseArticles \/ Resplit

SpecSegment == InitSegment /\ [][NextSegment]_vars

----------------------------------------------------------------------------
(* Properties of segmentation *)

\* a line made only of three or more hyphens stands between the line breaks
\* at positions i and j of t
RuleLineBetween(t, i, j) ==
    /\ t[i] = "\n"
    /\ t[j] = "\n"
    /\ j - i - 1 >= 3
    /\ \A k \in (i + 1)..(j - 1) : t[k] = "-"

\* the number of lines of t made only of three or more hyphens, each preceded
\* and followed by a line break
RuleLineCount(t) ==
    Cardinality({ i \in 1..Len(t) : \E j \in (i + 1)..Len(t) : RuleLineBetween(t, i, j) })

\* t ends with a line break and a line of three or more hyphens
EndsWithRuleLine(t) ==
    \E i \in 1..Len(t) :
        /\ t[i] = "\n"
        /\ Len(t) - i >= 3
        /\ \A k \in (i + 1)..Len(t) : t[k] = "-"

\* C11 as stated: the input is split at every line of three or more hyphens
\* that a line break precedes and follows, so the number of sections is the
\* number of such lines plus one, also when two such lines are adjacent.
SplitAtEveryRuleLine ==
    (pc = "parsed" /\ fn = "parse_articles")
    => Len(sections) = RuleLineCount(content) + 1

\* C12 as stated: the trimmed sections, joined by the delimiter line and split
\* again, give the same trimmed sections, for every input.
ResplitSameStep == pc' = "resplit" => Trimmed(sections') = Trimmed(sections)

SegmentationIdempotentAsClaimed == [][ResplitSameStep]_vars

\* C12 amended: the trimmed sections, joined by the delimiter line and split
\* again, give the same trimmed sections, for every input in which no
\* trimmed section but the last ends with a line made only of three or more
\* hyphens.
ResplitSameUnlessRuleEnds ==
    (pc' = "resplit"
     /\ \A k \in 1..(Len(sections) - 1) : ~EndsWithRuleLine(Strip(sections[k])))
    => Trimmed(sections') = Trimmed(sections)

SegmentationIdempotent == [][ResplitSameUnlessRuleEnds]_vars

\* C12 witness: three sections, the middle one blank, have been joined and
\* split again
SegmentationIdempotentReached ==
    /\ pc = "resplit"
    /\ Len(sections) = 3
    /\ Strip(sections[2]) = <<>>
    /\ Strip(sections[1]) # <<>>

\* C13: an input without a delimiter line gives exactly one section, the
\* input trimmed.
OneSectionWithoutRuleLine ==
    (pc = "parsed" /\ fn = "parse_articles" /\ RuleLineCount(content) = 0)
    => Trimmed(sections) = <<Strip(content)>>

\* C13 witness: an input that holds three hyphens in a row but no delimiter
\* line, and blanks around it, has been split
OneSectionWithoutRuleLineReached ==
    /\ pc = "parsed"
    /\ fn = "parse_articles"
    /\ RuleLineCount(content) = 0
    /\ Contains(content, Chars("---"))
    /\ Strip(content) # content
    /\ Len(sections) = 1

----------------------------------------------------------------------------
(* Notes mode on replies of up to four sections: articles, short paragraphs
   that may become notes, and sections that may not *)

\* the most sections joined into one notes-mode input
MaxNoteSections == 4

\* Sections of a notes-mode reply.
NotesLibrary ==
    << \* a titled section of 64 characters: an article, and short enough for a note
       Chars("# A\n") \o Fill("a", 60),
       \* a plain paragraph of 120 characters
       Fill("p", 120),
       \* a plain paragraph of 90 characters
       Fill("q", 90),
       \* a titled section of exactly 400 characters
       Chars("# L\n") \o Fill("l", MaxNoteLen - 4),
       \* a titled section that holds "Key Insight:"
       Chars("# K\nKey Insight: ") \o Fill("k", 50),
       \* an untitled paragraph that holds "Think about it:"
       Chars("Think about it: ") \o Fill("t", 60),
       \* a blank section
       Chars(" ")
    >>

NotesPicks == UNION { [1..n -> 1..Len(NotesLibrary)] : n \in 1..MaxNoteSections }

NotesInputs ==
    { JoinWith([k \in 1..Len(pick) |-> NotesLibrary[pick[k]]], RuleDelim, 1) :
        pick \in NotesPicks }

InitNotes ==
    /\ content \in NotesInputs
    /\ pc = "input"
    /\ fn = "none"
    /\ sections = <<>>
    /\ articles = <<>>
    /\ fields = [scripture |-> <<>>, main_text |-> <<>>, reflection |-> <<>>, prayer |-> <<>>]
    /\ raised = FALSE
    /\ articles_file = <<>>
    /\ master_csv = <<>>
    /\ pairs = <<>>
    /\ jobs = NoJobs
    /\ debug_file = NoFile
    /\ text_files = NoTextFiles
    /\ transcripts = NoTranscripts
    /\ response = NoResponse
    /\ scan = NoScan

NextNotes == ParseInnovationsAndNotes \/ ParseInnovationsAndNotesPipeline

SpecNotes == InitNotes /\ [][NextNotes]_vars

----------------------------------------------------------------------------
(* Properties of notes mode *)

\* the k-th section, trimmed
Sec(k) == Strip(sections[k])

\* the note test: shorter than 400 characters and without the two markers
NotePasses(t) ==
    /\ Len(t) < 400
    /\ ~Contains(t, Chars("Key Insight:"))
    /\ ~Contains(t, Chars("Think about it:"))

\* the k-th section exists and passes the note test
NoteLike(k) == k <= Len(sections) /\ NotePasses(Sec(k))

\* the k-th section exists and is one the notes-mode parsers accept when
\* they try it: 50 characters, a title pattern matches, the title is no
\* formatting artifact
ArticleLike(k) ==
    /\ k <= Len(sections)
    /\ Len(Sec(k)) >= 50
    /\ HeadingFirst(Sec(k)).ok
    /\ LowerStr(Strip(Group1(Sec(k), HeadingFirst(Sec(k))))) \notin ArtifactTitles

\* some article came from the k-th section
ArticleFrom(k) == \E i \in 1..Len(articles) : articles[i].sec = k

NotesParsed == pc = "parsed" /\ fn \in NotesParsers /\ ~raised

\* C14: when the section of an accepted article is followed by two sections
\* that pass the note test, the first is its note 1 and the second its note
\* 2, and the scan resumes at the section after those two.
TwoNotesAttached ==
    NotesParsed =>
        \A i \in 1..Len(articles) :
            (NoteLike(articles[i].sec + 1) /\ NoteLike(articles[i].sec + 2))
            => /\ articles[i].note1 = Sec(articles[i].sec + 1)
               /\ articles[i].note2 = Sec(articles[i].sec + 2)
               /\ ~ArticleFrom(articles[i].sec + 1)
               /\ ~ArticleFrom(articles[i].sec + 2)
               /\ ArticleLike(articles[i].sec + 3) => ArticleFrom(articles[i].sec + 3)

\* C14 witness: an article with the 120-character and the 90-character
\* paragraph as its notes, and the section after them an article
TwoNotesAttachedReached ==
    /\ NotesParsed
    /\ Len(sections) = 4
    /\ Len(articles) = 2
    /\ articles[1].sec = 1
    /\ Len(articles[1].note1) = 120
    /\ Len(articles[1].note2) = 90
    /\ articles[2].sec = 4

\* the article after the i-th comes from the m-th section or an earlier one
NextArticleBy(i, m) == i < Len(articles) /\ articles[i + 1].sec <= m

\* C15: an article consumes at most two following sections as notes (the
\* third section after it is free for the scan), and the second following
\* section is looked at as note 2 only if the first was taken as note 1 (when
\* the first fails the note test the article has no note and the scan goes on
\* at that first section).
NotesSequential ==
    NotesParsed =>
        \A i \in 1..Len(articles) :
            /\ articles[i].note1 \in {<<>>, IF NoteLike(articles[i].sec + 1)
                                             THEN Sec(articles[i].sec + 1) ELSE <<>>}
            /\ articles[i].note2 \in {<<>>, IF NoteLike(articles[i].sec + 2)
                                             THEN Sec(articles[i].sec + 2) ELSE <<>>}
            /\ ~NoteLike(articles[i].sec + 1)
                  => articles[i].note1 = <<>> /\ articles[i].note2 = <<>>
            /\ ~NoteLike(articles[i].sec + 1)
                  => \A m \in (articles[i].sec + 1)..Len(sections) :
                        ArticleLike(m) => NextArticleBy(i, m)
            /\ \A m \in (articles[i].sec + 3)..Len(sections) :
                  ArticleLike(m) => NextArticleBy(i, m)

\* C15 witness: the first following section failed the note test, the second
\* would have passed it, and the article has no note
NotesSequentialReached ==
    /\ NotesParsed
    /\ \E i \in 1..Len(articles) :
          /\ articles[i].sec + 1 <= Len(sections)
          /\ ~NoteLike(articles[i].sec + 1)
          /\ ~ArticleLike(articles[i].sec + 1)
          /\ NoteLike(articles[i].sec + 2)
          /\ Sec(articles[i].sec + 2) # <<>>
          /\ articles[i].note2 = <<>>

\* C16: a section attached as a note is never also parsed as an article, and
\* a following section that fails the note test is not skipped: it is the
\* next section tried as an article.
NotesConsumedOnce ==
    NotesParsed =>
        \A i \in 1..Len(articles) :
            /\ NoteLike(articles[i].sec + 1) => ~ArticleFrom(articles[i].sec + 1)
            /\ (NoteLike(articles[i].sec + 1) /\ NoteLike(articles[i].sec + 2))
                  => ~ArticleFrom(articles[i].sec + 2)
            /\ (~NoteLike(articles[i].sec + 1) /\ ArticleLike(articles[i].sec + 1))
                  => ArticleFrom(articles[i].sec + 1)
            /\ (NoteLike(articles[i].sec + 1) /\ ~NoteLike(articles[i].sec + 2)
                /\ ArticleLike(articles[i].sec + 2))
                  => ArticleFrom(articles[i].sec + 2)

\* C16 witness: a titled section short enough for a note was attached to the
\* article before it, and the section after it, which holds a marker, became
\* the next article
NotesConsumedOnceReached ==
    /\ NotesParsed
    /\ Len(articles) = 2
    /\ articles[1].sec = 1
    /\ ArticleLike(2)
    /\ articles[1].note1 = Sec(2)
    /\ articles[1].note2 = <<>>
    /\ articles[2].sec = 3
    /\ Contains(Sec(3), Chars("Key Insight:"))

\* the k-th section was attached as a note to the article one or two sections
\* before it
NoteOfArticle(k) ==
    \E i \in 1..Len(articles) :
        \/ articles[i].sec = k - 1 /\ articles[i].note1 = Sec(k)
        \/ /\ articles[i].sec = k - 2
           /\ articles[i].note1 = Sec(k - 1)
           /\ articles[i].note2 = Sec(k)

\* C29 as stated: in notes mode every section that meets the article criteria
\* on its own (a recognized title and enough text) produces its own article,
\* and is never consumed as a note of the article before it.
TitledNeverConsumedAsClaimed ==
    NotesParsed =>
        \A k \in 1..Len(sections) : ArticleLike(k) => ArticleFrom(k)

\* C29 amended: a section that meets the article criteria produces its own
\* article unless it passes the note test (under 400 characters, neither
\* marker) and was attached as note 1 or note 2 of the article one or two
\* sections before it; a section of 400 characters or more, or one holding a
\* marker, is never consumed as a note.
TitledConsumedOnlyAsShortNote ==
    NotesParsed =>
        \A k \in 1..Len(sections) :
            /\ ArticleLike(k) => ArticleFrom(k) \/ (NotePasses(Sec(k)) /\ NoteOfArticle(k))
            /\ (ArticleLike(k) /\ ~NotePasses(Sec(k))) => ArticleFrom(k)
            /\ ArticleFrom(k) => ~NoteOfArticle(k) \/ Sec(k) = <<>>

\* C29 witness: after an article, a titled section of 400 characters or more
\* produced its own article, and the short titled section after that one was
\* consumed as its note
TitledConsumedOnlyAsShortNoteReached ==
    /\ NotesParsed
    /\ Len(sections) = 3
    /\ Len(articles) = 2
    /\ articles[1].sec = 1
    /\ articles[2].sec = 2
    /\ ArticleLike(2) /\ Len(Sec(2)) >= 400
    /\ ArticleLike(3) /\ NotePasses(Sec(3))
    /\ articles[2].note1 = Sec(3)
    /\ ~ArticleFrom(3)

----------------------------------------------------------------------------
(* Title synthesis in generate_innovations_single_video: replies of sections
   without a title, with an artifact title, with and without a lead-in phrase *)

\* the most sections joined into one input of this kind
MaxSynthSections == 2

SynthLibrary ==
    << \* no title, a lead-in phrase
       Chars("Jesus said ") \o Fill("n", 20) \o Chars(". ") \o Fill("o", 100),
       \* no title, a capitalized sentence after a blank line
       Fill("u", 30) \o Chars("\n\nGrace is enough here. ") \o Fill("v", 60),
       \* an artifact title, a lead-in phrase with a lower-case clause
       Chars("# Innovation\n\nJesus said ") \o Fill("n", 20) \o Chars(". ") \o Fill("o", 100),
       \* an artifact title, no lead-in phrase, a capitalized sentence
       Chars("**Key Insight:**\n\nGrace is enough here. ") \o Fill("w", 60),
       \* an artifact title and neither
       Chars("# Summary:\n") \o Fill("r", 100),
       \* an artifact title, a lead-in phrase followed by blanks only
       Chars("**Key Insight**\n\nHere's something") \o Fill(" ", 21)
           \o Chars(". ") \o Fill("m", 100),
       \* an artifact title, a lead-in phrase with a clause of 70 characters
       Chars("**Think about it:**\n\nYou know what ") \o Fill("z", 70) \o Chars("! ")
           \o Fill("y", 420),
       \* a title that is no artifact
       Chars("# X\n") \o Fill("g", 60),
       \* no title, no lead-in phrase, no capitalized sentence
       Fill("h", 420)
    >>

SynthPicks == UNION { [1..n -> 1..Len(SynthLibrary)] : n \in 1..MaxSynthSections }

SynthInputs ==
    { JoinWith([k \in 1..Len(pick) |-> SynthLibrary[pick[k]]], RuleDelim, 1) :
        pick \in SynthPicks }

InitSynth ==
    /\ content \in SynthInputs
    /\ pc = "input"
    /\ fn = "none"
    /\ sections = <<>>
    /\ articles = <<>>
    /\ fields = [scripture |-> <<>>, main_text |-> <<>>, reflection |-> <<>>, prayer |-> <<>>]
    /\ raised = FALSE
    /\ articles_file = <<>>
    /\ master_csv = <<>>
    /\ pairs = <<>>
    /\ jobs = NoJobs
    /\ debug_file = NoFile
    /\ text_files = NoTextFiles
    /\ transcripts = NoTranscripts
    /\ response = NoResponse
    /\ scan = NoScan

NextSynth == ParseInnovationsAndNotes

SpecSynth == InitSynth /\ [][NextSynth]_vars

----------------------------------------------------------------------------
(* Properties of title synthesis *)

SynthParsed == pc = "parsed" /\ fn = "parse_innovations_and_notes"

\* a title pattern matches in the k-th section and the title is one of the
\* formatting artifacts
ArtifactTitled(k) ==
    /\ HeadingFirst(Sec(k)).ok
    /\ LowerStr(Strip(Group1(Sec(k), HeadingFirst(Sec(k))))) \in
          { Chars("key insight:"), Chars("key insight"), Chars("innovation"),
            Chars("think about it:"), Chars("summary:") }

\* the title of the article that came from the first section
FirstTitle == articles[1].title

\* C17 as stated: in the single-video parser a first section of 50 characters
\* or more in which neither title pattern matches, and in which a lead-in
\* phrase or a capitalized first sentence is found, is not rejected: it
\* yields an article with a synthesized title.
UntitledSynthesizedAsClaimed ==
    (SynthParsed /\ ~raised
     /\ Len(Sec(1)) >= 50
     /\ ~HeadingFirst(Sec(1)).ok
     /\ SynthTitle(Sec(1)).kind = "title")
    => ArticleFrom(1)

\* C17 amended: in the single-video parser a section in which neither title
\* pattern matches is rejected outright, with no title synthesis.  Synthesis
\* is tried only when the matched title is a formatting artifact: the title
\* is then the clause of the first lead-in pattern found in the first 500
\* characters (trimmed, cut to 60 characters, capitalized if needed; a blank
\* clause makes the call raise IndexError), else the first capitalized
\* sentence of 10-80 characters after a blank line, and the section is
\* rejected only when both attempts fail.
SynthesisOnlyForArtifacts ==
    SynthParsed =>
        /\ \A i \in 1..Len(articles) : HeadingFirst(SectionOf(articles[i])).ok
        /\ ~HeadingFirst(Sec(1)).ok => ~ArticleFrom(1)
        /\ (Len(Sec(1)) >= 50 /\ ArtifactTitled(1)) =>
              /\ SynthTitle(Sec(1)).kind = "raise" => raised
              /\ (SynthTitle(Sec(1)).kind = "none" /\ ~raised) => ~ArticleFrom(1)
              /\ (SynthTitle(Sec(1)).kind = "title" /\ ~raised) =>
                    /\ ArticleFrom(1)
                    /\ FirstTitle = SynthTitle(Sec(1)).title
                    /\ Len(FirstTitle) <= 60
        /\ (~raised /\ Sec(1) = SynthLibrary[3]) =>
              ArticleFrom(1) /\ FirstTitle = Chars("N") \o Fill("n", 19)
        /\ (~raised /\ Sec(1) = SynthLibrary[4]) =>
              ArticleFrom(1) /\ FirstTitle = Chars("Grace is enough here")
        /\ (~raised /\ Sec(1) = SynthLibrary[5]) => ~ArticleFrom(1)
        /\ Sec(1) = SynthLibrary[6] => raised
        /\ (~raised /\ Sec(1) = SynthLibrary[7]) =>
              ArticleFrom(1) /\ FirstTitle = Chars("Z") \o Fill("z", 59)

\* C17 witness: a first section without a title, with a lead-in phrase, was
\* rejected, and the artifact-titled section after it got a synthesized title
SynthesisOnlyForArtifactsReached ==
    /\ SynthParsed
    /\ ~raised
    /\ Len(sections) = 2
    /\ ~HeadingFirst(Sec(1)).ok
    /\ SynthTitle(Sec(1)).kind = "title"
    /\ ArtifactTitled(2)
    /\ Len(articles) = 1
    /\ articles[1].sec = 2
    /\ articles[1].title = Chars("Grace is enough here")

----------------------------------------------------------------------------
(* The notes-mode while loop, one iteration per step
   (generate_innovations_single_video.py:374-451,
    generate_innovations_pipeline.py:378-462).  The index i of the model is
   1-based: `while i < len(sections)` reads scan.i <= Len(sections). *)

\* lines 370-374: the reply is split, innovations = [], i = 0
StartScan ==
    /\ pc = "input"
    /\ \E f \in NotesParsers :
          /\ fn' = f
          /\ scan' = [i |-> 1, iters |-> 0, synth |-> (f = "parse_innovations_and_notes")]
    /\ pc' = "scanning"
    /\ sections' = Split(content)
    /\ articles' = <<>>
    /\ UNCHANGED <<content, raised, fields, articles_file, master_csv, pairs, jobs,
                   debug_file, text_files, transcripts, response>>

\* the loop variables after an iteration with outcome st
ScanAfter(st) ==
    /\ scan' = [scan EXCEPT !.i = st.next, !.iters = scan.iters + 1]
    /\ articles' = IF st.kind = "emit" THEN Append(articles, st.art) ELSE articles
    /\ raised' = (st.kind = "raise")
    /\ pc' = IF st.kind = "raise" THEN "parsed" ELSE "scanning"

\* one iteration of the loop body, lines 375-449; an exception ends the call
ScanIteration ==
    /\ pc = "scanning"
    /\ scan.i <= Len(sections)
    /\ ScanAfter(NotesStep(sections, scan.i, scan.synth))
    /\ UNCHANGED <<content, fn, sections, fields, articles_file, master_csv, pairs,
                   jobs, debug_file, text_files, transcripts, response>>

\* line 374 false, line 451: return innovations
ScanReturn ==
    /\ pc = "scanning"
    /\ scan.i > Len(sections)
    /\ pc' = "parsed"
    /\ UNCHANGED <<content, fn, sections, articles, raised, fields, articles_file,
                   master_csv, pairs, jobs, debug_file, text_files, transcripts,
                   response, scan>>

NextScan == StartScan \/ ScanIteration \/ ScanReturn

\* replies of notes-mode sections, and replies with sections whose title is
\* synthesized (one of them makes the synthesis raise IndexError)
InitScan ==
    /\ content \in NotesInputs \cup SynthInputs
    /\ pc = "input"
    /\ fn = "none"
    /\ sections = <<>>
    /\ articles = <<>>
    /\ fields = [scripture |-> <<>>, main_text |-> <<>>, reflection |-> <<>>, prayer |-> <<>>]
    /\ raised = FALSE
    /\ articles_file = <<>>
    /\ master_csv = <<>>
    /\ pairs = <<>>
    /\ jobs = NoJobs
    /\ debug_file = NoFile
    /\ text_files = NoTextFiles
    /\ transcripts = NoTranscripts
    /\ response = NoResponse
    /\ scan = NoScan

SpecScan == InitScan /\ [][NextScan]_vars

\* line 374 is about to be found true: an iteration can be executed
CanIterate == pc = "scanning" /\ scan.i <= Len(sections)

\* The loop runs in one thread that is not suspended for good, so a step of
\* the loop that stays possible is eventually executed: weak fairness of
\* ScanReturn and of ScanIteration.  WF_vars(ScanIteration) is written out,
\* with CanIterate for ENABLED <<ScanIteration>>_vars (an iteration always
\* changes scan.iters, so the two are the same predicate).
SpecScanFair ==
    /\ SpecScan
    /\ WF_vars(ScanReturn)
    /\ ([]<>(~CanIterate) \/ []<><<ScanIteration>>_vars)

----------------------------------------------------------------------------
(* Properties of the notes-mode loop *)

\* a step of the loop body
Iterates == pc = "scanning" /\ scan'.iters = scan.iters + 1

\* the index strictly increases on every iteration that does not raise
IndexIncreases ==
    [][Iterates /\ ~raised' => scan'.i > scan.i /\ scan'.i <= Len(sections) + 1]_vars

\* no more iterations than sections, and no section visited twice: the index
\* is ahead of the number of iterations completed (an iteration that raised
\* ended the call at its section)
IterationsBounded ==
    pc \in {"scanning", "parsed"} /\ fn \in NotesParsers /\ scan.i > 0
        => /\ scan.iters <= Len(sections)
           /\ scan.iters < scan.i + (IF raised THEN 1 ELSE 0)
           /\ raised => pc = "parsed"

\* what the loop returned is what NotesLoop computes
ScanAgrees ==
    pc = "parsed" /\ scan.i > 0
        => \E r \in {NotesLoop(sections, 1, scan.synth)} :
              /\ raised = r.raised
              /\ ~raised => articles = r.out

\* C30: the notes-mode scan terminates for every input: the index strictly
\* increases on every iteration that runs to its end (skip paths and accept
\* path), so no section is visited twice and the loop makes at most as many
\* iterations as there are sections; the call returns what NotesLoop
\* computes, or ends with the exception an iteration raised.
ScanTerminates ==
    /\ IndexIncreases
    /\ []IterationsBounded
    /\ []ScanAgrees
    /\ (pc = "scanning") ~> (pc = "parsed")

\* C30 witness: a scan that returned after skipping a section, accepting an
\* article with a note and accepting another, in fewer iterations than
\* sections
ScanTerminatesReached ==
    /\ pc = "parsed" /\ ~raised
    /\ Len(sections) = 4
    /\ scan.i = 5
    /\ scan.iters = 3
    /\ Len(articles) = 2
    /\ articles[1].sec = 2
    /\ articles[1].note1 # <<>>
    /\ articles[2].sec = 4

----------------------------------------------------------------------------
(* parse_innovation_body on bodies put together from the parts an innovation
   has, in any order and number *)

\* the most parts put together into one body
MaxParts == 4

BodyParts ==
    { Chars("Key Insight: grace\n\n"),
      Chars("key insight:\n faith\n"),
      Chars("Main text here.\n\n"),
      Chars("**Think about it:** What now?"),
      Chars("\n\n**Summary:** The end."),
      Chars(" \n") }

BodyInputs ==
    {<<>>} \cup { Cat(ps) : ps \in UNION { [1..n -> BodyParts] : n \in 1..MaxParts } }

InitBody ==
    /\ content \in BodyInputs
    /\ pc = "input"
    /\ fn = "none"
    /\ sections = <<>>
    /\ articles = <<>>
    /\ fields = [scripture |-> <<>>, main_text |-> <<>>, reflection |-> <<>>, prayer |-> <<>>]
    /\ raised = FALSE
    /\ articles_file = <<>>
    /\ master_csv = <<>>
    /\ pairs = <<>>
    /\ jobs = NoJobs
    /\ debug_file = NoFile
    /\ text_files = NoTextFiles
    /\ transcripts = NoTranscripts
    /\ response = NoResponse
    /\ scan = NoScan

NextBody == ParseInnovationBody

SpecBody == InitBody /\ [][NextBody]_vars

----------------------------------------------------------------------------
(* Properties of parse_innovation_body *)

BodyParsed == pc = "parsed" /\ fn = "parse_innovation_body"

\* the body of an innovation with all its parts in order
WholeInnovation ==
    Chars("Key Insight: grace\n\nMain text here.\n\n**Think about it:** What now?\n\n**Summary:** The end.")

\* C18: main_text is the whole body, unchanged, unless both the
\* "Key Insight:" pattern and the "**Think about it:**" pattern match; when
\* both match it is the trimmed slice of the body between the end of the
\* insight match and the start of the reflection match.
MainTextWholeOrBetween ==
    BodyParsed =>
        /\ (InsightSearch(content).ok /\ ReflectionSearch(content).ok)
              => fields.main_text =
                    Strip(Slice(content, InsightSearch(content).end + 1,
                                ReflectionSearch(content).start - 1))
        /\ ~(InsightSearch(content).ok /\ ReflectionSearch(content).ok)
              => fields.main_text = content
        /\ content = WholeInnovation => fields.main_text = Chars("Main text here.")
        /\ content = Chars("Key Insight: grace\n\nMain text here.\n\n")
              => fields.main_text = content
        /\ content = Chars("Main text here.\n\n**Think about it:** What now?\n\n**Summary:** The end.")
              => fields.main_text = content

\* C18 witness: a body with all its parts was parsed, and main_text is the
\* text between insight and reflection
MainTextWholeOrBetweenReached ==
    /\ BodyParsed
    /\ content = WholeInnovation
    /\ fields.scripture = Chars("grace")
    /\ fields.main_text = Chars("Main text here.")
    /\ fields.reflection = Chars("What now?")

----------------------------------------------------------------------------
(* generate_articles (ai_models.py:86-157), generate_for_source
   (generator.py:97-205) and the worker _run_generation (app.py:66-102) *)

\* the message contents a model reply may hold: empty, blank, text without an
\* article (bare and padded with whitespace), one article, one article with
\* the delimiter line the prompt asks for after it, two articles, an article
\* with a blank title, an article under a heading that holds asterisks, an
\* article with a CR LF line break in its body
ReplyTexts ==
    { <<>>,
      Chars(" \n"),
      Fill("h", 120),
      Chars("\n ") \o Fill("h", 120) \o Chars(" "),
      Chars("**T**\n\n") \o Fill("a", 100),
      Chars("**T**\n\n") \o Fill("a", 100) \o Chars("\n\n---\n"),
      Chars("**T**\n\n") \o Fill("a", 100) \o Chars("\n\n---\n\n**U**\n\n") \o Fill("b", 100),
      Chars("** **\n\n") \o Fill("i", 100),
      Chars("# a**b\n\n") \o Fill("c", 100),
      Chars("**R**\n\n") \o Fill("d", 50) \o Chars("\r\n") \o Fill("d", 50) }

ModelOutcomes ==
    { [kind |-> "raise", text |-> <<>>], [kind |-> "none", text |-> <<>>] }
    \cup { [kind |-> "reply", text |-> t] : t \in ReplyTexts }

\* generator.py:134
RetrieveError == "Could not retrieve content from source"
\* ai_models.py:24-26, re-raised at generator.py:168-170
ConfigError ==
    "Missing PredictionGuard config. Set PREDICTIONGUARD_API_KEY and PREDICTIONGUARD_URL in .env"
\* generator.py:180 (the dash of the source is U+2014, written here as --)
NoArticlesError == "No articles generated -- check logs for details."

SourceErrors == {RetrieveError, ConfigError}

\* what a call of generate_articles does: the list it returns, whether it
\* writes the debug file and with what text, and the kinds of its log lines
GenerateResult(arts, dump, text, log) ==
    [articles |-> arts, dump |-> dump, text |-> text, log |-> log]

\* a generate_articles that writes the debug file after every parse
GenerateParsedAlwaysDump(stripped, arts) ==
    GenerateResult(arts, TRUE, stripped,
                   <<"calling", "received", "parsing", "parsed", "saving raw response">>)

\* ai_models.py:143-151: the content is parsed, and written to the debug file
\* when no article came out
GenerateParsed(stripped, arts) ==
    GenerateResult(arts, arts = <<>>, IF arts = <<>> THEN stripped ELSE <<>>,
                   <<"calling", "received", "parsing", "parsed">>
                   \o (IF arts = <<>> THEN <<"saving raw response">> ELSE <<>>))

\* ai_models.py:136-143: no content, no parsing
GenerateFromContent(stripped) ==
    IF stripped = <<>>
    THEN GenerateResult(<<>>, FALSE, <<>>, <<"calling", "received", "no content">>)
    ELSE GenerateParsed(stripped, parse_articles(stripped))

\* ai_models.py:111-157
generate_articles(o) ==
    IF o.kind = "raise"
    THEN GenerateResult(<<>>, FALSE, <<>>, <<"calling", "error calling">>)
    ELSE IF o.kind = "none"
    THEN GenerateResult(<<>>, FALSE, <<>>, <<"calling", "received", "empty response">>)
    ELSE GenerateFromContent(Strip(o.text))

\* api_generate (app.py:110-130): a new job, queued, and its worker thread
ApiGenerate(j) ==
    /\ jobs[j].status = "none"
    /\ \A i \in 1..(j - 1) : jobs[i].status # "none"
    /\ \E src \in Sources :
          jobs' = [jobs EXCEPT ![j] = [NoJob EXCEPT !.status = "queued", !.src = src]]
    /\ UNCHANGED <<scan, content, pc, fn, sections, articles, raised, fields, articles_file,
                   master_csv, pairs, debug_file,
                   text_files, transcripts, response>>

\* _run_generation (app.py:67-68): the worker starts
RunGeneration(j) ==
    /\ jobs[j].status = "queued"
    /\ jobs' = [jobs EXCEPT ![j].status = "running", ![j].at = "start",
                            ![j].progress = <<"starting">>]
    /\ UNCHANGED <<scan, content, pc, fn, sections, articles, raised, fields, articles_file,
                   master_csv, pairs, debug_file,
                   text_files, transcripts, response>>

\* a worker that ends on an exception without recording the failure
FailedUnrecorded(job, msg) ==
    [job EXCEPT !.error = msg, !.at = "done", !.progress = @ \o <<"error">>]

\* the job fails with the message of the exception (app.py:98-102)
Failed(job, msg) ==
    [job EXCEPT !.status = "failed", !.error = msg, !.at = "done",
                !.progress = @ \o <<"error">>]

\* the header of the transcript file of a source (generator.py:141-146), as
\* _parse_transcript_header reads it back
TranscriptOf(src) ==
    [exists |-> TRUE, title |-> Chars(src.title), source_id |-> Chars(src.id),
     source_type |-> src.type]

\* generator.py:116-147: the content of the source is fetched and written to
\* the transcript file of its title
FetchContent(j) ==
    /\ jobs[j].status = "running"
    /\ jobs[j].at = "start"
    /\ jobs' = [jobs EXCEPT ![j].at = "fetched", ![j].progress = @ \o <<"content saved">>]
    /\ transcripts' = [transcripts EXCEPT ![sanitize_filename(Chars(jobs[j].src.title))] =
                           TranscriptOf(jobs[j].src)]
    /\ UNCHANGED <<scan, content, pc, fn, sections, articles, raised, fields, articles_file,
                   master_csv, pairs, debug_file, text_files, response>>

\* the error generate_for_source raises before the model is called: no
\* content (generator.py:132-134) at the start, no client
\* (generator.py:165-170) once the content is fetched
SourceErrorAt(at) == IF at = "start" THEN RetrieveError ELSE ConfigError

\* generate_for_source raises before the model is called
SourceFails(j) ==
    /\ jobs[j].status = "running"
    /\ jobs[j].at \in {"start", "fetched"}
    /\ SourceErrorAt(jobs[j].at) \in SourceErrors
    /\ jobs' = [jobs EXCEPT ![j] = Failed(jobs[j], SourceErrorAt(jobs[j].at))]
    /\ UNCHANGED <<scan, content, pc, fn, sections, articles, raised, fields, articles_file,
                   master_csv, pairs, debug_file,
                   text_files, transcripts, response>>

RECURSIVE ReturnedByOthers(_, _)
\* the articles the jobs other than j, from job i on, have parsed so far
ReturnedByOthers(j, i) ==
    IF i > MaxJobs THEN <<>>
    ELSE (IF i = j THEN <<>> ELSE jobs[i].returned) \o ReturnedByOthers(j, i + 1)

\* a parser whose `articles` list is kept between calls: the job gets the
\* articles of the other jobs before its own
AfterGenerateShared(j, o, r) ==
    /\ jobs' = [jobs EXCEPT ![j].at = "generated", ![j].reply = o,
                            ![j].returned = ReturnedByOthers(j, 1) \o r.articles,
                            ![j].dumped = [exists |-> r.dump, text |-> r.text],
                            ![j].progress = @ \o r.log]
    /\ debug_file' = IF r.dump THEN [exists |-> TRUE, text |-> r.text] ELSE debug_file

\* the state after generate_articles returned r for the outcome o
AfterGenerate(j, o, r) ==
    /\ jobs' = [jobs EXCEPT ![j].at = "generated", ![j].reply = o,
                            ![j].returned = r.articles,
                            ![j].dumped = [exists |-> r.dump, text |-> r.text],
                            ![j].progress = @ \o r.log]
    /\ debug_file' = IF r.dump THEN [exists |-> TRUE, text |-> r.text] ELSE debug_file

\* generator.py:174-176: generate_articles is called and returns
GenerateArticles(j) ==
    /\ jobs[j].status = "running"
    /\ jobs[j].at = "fetched"
    /\ \E o \in ModelOutcomes : AfterGenerate(j, o, generate_articles(o))
    /\ UNCHANGED <<scan, content, pc, fn, sections, articles, raised, fields, articles_file,
                   master_csv, pairs, text_files, transcripts, response>>

\* generator.py:178-180 and app.py:98-102: no article, RuntimeError, the job
\* fails
NoArticles(j) ==
    /\ jobs[j].status = "running"
    /\ jobs[j].at = "generated"
    /\ jobs[j].returned = <<>>
    /\ jobs' = [jobs EXCEPT ![j] = Failed(jobs[j], NoArticlesError)]
    /\ UNCHANGED <<scan, content, pc, fn, sections, articles, raised, fields, articles_file,
                   master_csv, pairs, debug_file,
                   text_files, transcripts, response>>

\* generator.py:182-195, save_articles lines 25-36: the text file of the
\* source's title is written
SaveTextFile(j) ==
    /\ jobs[j].status = "running"
    /\ jobs[j].at = "generated"
    /\ jobs[j].returned # <<>>
    /\ articles_file' = RenderFrom(jobs[j].returned, 1)
    /\ text_files' = [text_files EXCEPT ![sanitize_filename(Chars(jobs[j].src.title))] =
                          [exists |-> TRUE, text |-> RenderFrom(jobs[j].returned, 1)]]
    /\ jobs' = [jobs EXCEPT ![j].at = "text saved", ![j].progress = @ \o <<"saving">>]
    /\ UNCHANGED <<scan, content, pc, fn, sections, articles, raised, fields, master_csv, pairs,
                   debug_file, transcripts, response>>

\* save_articles line 42: file_exists = master_csv.exists()
CheckCsvExists(j) ==
    /\ jobs[j].status = "running"
    /\ jobs[j].at = "text saved"
    /\ jobs' = [jobs EXCEPT ![j].at = "checked", ![j].file_exists = (master_csv # <<>>)]
    /\ UNCHANGED <<scan, content, pc, fn, sections, articles, raised, fields, articles_file,
                   master_csv, pairs, debug_file, text_files, transcripts, response>>

\* save_articles lines 43-66, generator.py:196-205 and app.py:94-97: the rows
\* are appended and the job completes
SaveAndComplete(j) ==
    /\ jobs[j].status = "running"
    /\ jobs[j].at = "checked"
    /\ master_csv' = CsvAppend(master_csv, jobs[j].file_exists, jobs[j].src, jobs[j].returned)
    /\ jobs' = [jobs EXCEPT ![j].status = "completed", ![j].at = "done",
                            ![j].count = Len(jobs[j].returned),
                            ![j].progress = @ \o <<"done">>]
    /\ UNCHANGED <<scan, content, pc, fn, sections, articles, raised, fields, articles_file, pairs,
                   debug_file, text_files, transcripts, response>>

InitJobs ==
    /\ content = <<>>
    /\ pc = "jobs"
    /\ fn = "none"
    /\ sections = <<>>
    /\ articles = <<>>
    /\ fields = [scripture |-> <<>>, main_text |-> <<>>, reflection |-> <<>>, prayer |-> <<>>]
    /\ raised = FALSE
    /\ articles_file = <<>>
    /\ master_csv \in {<<>>, PriorCsv}
    /\ pairs = <<>>
    /\ jobs = NoJobs
    /\ debug_file = NoFile
    /\ text_files = NoTextFiles
    /\ transcripts = NoTranscripts
    /\ response = NoResponse
    /\ scan = NoScan

NextJobs ==
    \E j \in JobIds :
        \/ ApiGenerate(j)
        \/ RunGeneration(j)
        \/ FetchContent(j)
        \/ SourceFails(j)
        \/ GenerateArticles(j)
        \/ NoArticles(j)
        \/ SaveTextFile(j)
        \/ CheckCsvExists(j)
        \/ SaveAndComplete(j)

SpecJobs == InitJobs /\ [][NextJobs]_vars

\* a step of the worker thread of job j (app.py:66-102)
WorkerStep(j) ==
    \/ RunGeneration(j)
    \/ FetchContent(j)
    \/ SourceFails(j)
    \/ GenerateArticles(j)
    \/ NoArticles(j)
    \/ SaveTextFile(j)
    \/ CheckCsvExists(j)
    \/ SaveAndComplete(j)

\* the worker of job j has something left to do
Working(j) ==
    \/ jobs[j].status = "queued"
    \/ jobs[j].status = "running" /\ jobs[j].at # "done"

\* thread.start() (app.py:126-129) gives every job a thread of its own, and
\* the calls it makes return or raise: a worker that has a step left takes
\* one eventually.  That is WF_vars(WorkerStep(j)), written out with
\* Working(j) for ENABLED <<WorkerStep(j)>>_vars (a queued job can start,
\* a running job has at every position before "done" the steps of that
\* position, and each step changes jobs[j].at or jobs[j].status).  Requests (ApiGenerate) may
\* stop arriving.
SpecJobsFair ==
    /\ SpecJobs
    /\ \A j \in JobIds :
          /\ WF_vars(RunGeneration(j))
          /\ ([]<>(~Working(j)) \/ []<><<WorkerStep(j)>>_vars)

----------------------------------------------------------------------------
(* Properties of the generation jobs *)

\* generate_articles has returned in job j
Called(j) == jobs[j].reply.kind # "pending"

\* the job's worker has ended
Ended(j) == jobs[j].at = "done" /\ Called(j)

\* the one file of the name debug_pg_output.txt holds what some call wrote
DebugFileFromCalls ==
    /\ debug_file.exists <=> \E j \in JobIds : jobs[j].dumped.exists
    /\ debug_file.exists =>
          \E j \in JobIds : jobs[j].dumped.exists /\ debug_file.text = jobs[j].dumped.text

\* C19 as stated: the debug file is written exactly when the reply is non-empty
\* and no article is parsed, and it then holds the reply character for
\* character.
DebugDumpAsClaimed ==
    \A j \in JobIds :
        Called(j) =>
            /\ jobs[j].dumped.exists <=>
                  /\ jobs[j].reply.kind = "reply"
                  /\ jobs[j].reply.text # <<>>
                  /\ jobs[j].returned = <<>>
            /\ jobs[j].dumped.exists => jobs[j].dumped.text = jobs[j].reply.text

\* C19, amended: generate_articles writes the reply, trimmed of the whitespace
\* around it, to the debug file exactly when the trimmed reply is non-empty and
\* no article is parsed from it; it writes nothing when an article is parsed,
\* when the call raises, when there is no response, and when the reply is
\* empty or blank.
DebugDump ==
    /\ DebugFileFromCalls
    /\ \A j \in JobIds :
          Called(j) =>
              /\ jobs[j].dumped.exists <=>
                    /\ jobs[j].reply.kind = "reply"
                    /\ Strip(jobs[j].reply.text) # <<>>
                    /\ jobs[j].returned = <<>>
              /\ jobs[j].dumped.exists => jobs[j].dumped.text = Strip(jobs[j].reply.text)
              /\ ~jobs[j].dumped.exists => jobs[j].dumped.text = <<>>

\* one call wrote a padded reply, trimmed, and another with an article in its
\* reply wrote nothing
DebugDumpReached ==
    \E j1, j2 \in JobIds :
        /\ Called(j1) /\ Called(j2)
        /\ jobs[j1].dumped.exists
        /\ jobs[j1].dumped.text = Fill("h", 120)
        /\ jobs[j1].reply.text # jobs[j1].dumped.text
        /\ debug_file = jobs[j1].dumped
        /\ jobs[j2].returned # <<>>
        /\ ~jobs[j2].dumped.exists

\* the model call raised, or gave no response, or an empty reply
UpstreamFailure(j) ==
    \/ jobs[j].reply.kind \in {"raise", "none"}
    \/ jobs[j].reply.kind = "reply" /\ jobs[j].reply.text = <<>>

\* a reply with text in it, from which no article was parsed
EmptyParse(j) ==
    /\ jobs[j].reply.kind = "reply"
    /\ Strip(jobs[j].reply.text) # <<>>
    /\ jobs[j].returned = <<>>

\* C20: a job whose model call failed upstream and a job whose reply parsed to
\* no article differ in what generate_articles returned, and, once ended, in
\* the error recorded on the job.
FailureToldFromEmptyParse ==
    \A j1, j2 \in JobIds :
        (Called(j1) /\ UpstreamFailure(j1) /\ Called(j2) /\ EmptyParse(j2)) =>
            /\ jobs[j1].returned # jobs[j2].returned
            /\ (Ended(j1) /\ Ended(j2)) => jobs[j1].error # jobs[j2].error

\* C27: no body generate_articles returns holds a line made only of three or
\* more hyphens, also when the reply ends with the delimiter line of the
\* prompt's format.
NoRuleLineInBody ==
    \A j \in JobIds :
        \A i \in 1..Len(jobs[j].returned) : ~HasRuleLine(jobs[j].returned[i].body)

\* what job j's call returned is what generate_articles returns for job j's
\* reply on its own
ParsedAsAlone(j) ==
    Called(j) => jobs[j].returned = generate_articles(jobs[j].reply).articles

\* no step changes the reply or the article list of a job whose call has
\* returned
ParsedListKept ==
    \A j \in JobIds :
        Called(j) => /\ jobs'[j].returned = jobs[j].returned
                     /\ jobs'[j].reply = jobs[j].reply

StatusSteps ==
    { <<"none", "queued">>, <<"queued", "running">>,
      <<"running", "completed">>, <<"running", "failed">> }

\* every change of a status is one of StatusSteps
StatusOrder ==
    \A j \in JobIds :
        jobs'[j].status # jobs[j].status
            => <<jobs[j].status, jobs'[j].status>> \in StatusSteps

\* C24: a job's status changes only from queued to running and from running
\* to completed or failed (so a completed or failed job keeps its status for
\* good), a worker ends only with its job completed or failed, and every
\* queued job eventually is completed or failed.
JobLifecycle ==
    /\ [][StatusOrder]_vars
    /\ [](\A j \in JobIds :
            jobs[j].at = "done" => jobs[j].status \in {"completed", "failed"})
    /\ \A j \in JobIds :
          (jobs[j].status = "queued") ~> (jobs[j].status \in {"completed", "failed"})

\* C24 witness: one job failed after its parse gave no article, another ran
\* to completion with its articles saved
JobLifecycleReached ==
    \E j1, j2 \in JobIds :
        /\ jobs[j1].status = "failed"
        /\ jobs[j1].error = NoArticlesError
        /\ jobs[j1].progress[1] = "starting"
        /\ jobs[j2].status = "completed"
        /\ jobs[j2].count = 2

----------------------------------------------------------------------------
(* Properties of the stored articles *)

\* the step is the append of job j's call of save_articles
Appends(j) == jobs[j].at = "checked" /\ jobs'[j].at = "done"

\* the rows after the step are the rows before it, then the header when
\* hdr = 1, then one row per article of arts holding its title and body
AppendedTo(before, after, hdr, arts) ==
    /\ Len(after) = Len(before) + hdr + Len(arts)
    /\ SubSeq(after, 1, Len(before)) = before
    /\ hdr = 1 => after[Len(before) + 1] = CsvHeader
    /\ \A i \in 1..Len(arts) :
          /\ after[Len(before) + hdr + i][6] = arts[i].title
          /\ after[Len(before) + hdr + i][7] = arts[i].body

\* C21: the master CSV changes only in the append of a call of save_articles;
\* the append keeps every row the file held, adds one row per article with the
\* article's title and body in article_title and article_body, and puts the
\* header before them only when the call found no file.
CsvAppendOnly ==
    [][ /\ master_csv' # master_csv => \E j \in JobIds : Appends(j)
        /\ \A j \in JobIds :
              Appends(j) =>
                  AppendedTo(master_csv, master_csv',
                             IF jobs[j].file_exists THEN 0 ELSE 1, jobs[j].returned)
      ]_vars

\* a job appended two articles to the file an earlier run left, and wrote no
\* header
CsvAppendOnlyReached ==
    \E j \in JobIds :
        /\ jobs[j].status = "completed"
        /\ jobs[j].file_exists
        /\ jobs[j].count = 2
        /\ Len(master_csv) = Len(PriorCsv) + 2
        /\ SubSeq(master_csv, 1, Len(PriorCsv)) = PriorCsv
        /\ master_csv[Len(master_csv)][6] = Chars("U")
        /\ \A i \in 2..Len(master_csv) : master_csv[i] # CsvHeader

\* C25: whatever the interleaving of the save_articles calls, the master CSV,
\* once it exists, has exactly one header row, and that row is its first.
OneHeaderRowFirst ==
    master_csv # <<>> =>
        /\ master_csv[1] = CsvHeader
        /\ \A i \in 2..Len(master_csv) : master_csv[i] # CsvHeader

----------------------------------------------------------------------------
(* The storage routes get_video_detail and delete_video  (src/backend/app.py).
   The directory `innovations` of earlier versions does not exist: OLD_CSV
   and OLD_DIR are skipped at their exists() tests. *)

\* the most jobs while the storage routes are called
MaxStoreJobs == 1

\* the most calls of the storage routes
MaxCalls == 2

\* the source_id of a request: the 16 hex digits save_articles gave the URL
\* `url` (kind "digest", in lower or in upper case), or the text `text`
Digest(url, form) == [kind |-> "digest", url |-> url, form |-> form, text |-> <<>>]

PlainId(str) == [kind |-> "text", url |-> "", form |-> "", text |-> Chars(str)]

AskedIds ==
    { Digest("https://y/vid1", "lower"), Digest("https://y/vid1", "upper"),
      Digest("https://s/art1", "lower"), Digest("https://y/old", "lower"),
      PlainId("vid1"), PlainId("art1"), PlainId("1"), PlainId("old") }

\* str.rstrip('/')
RStripSlash(t) == Prefix(t, Greatest(1, Len(t), LAMBDA i : t[i] # "/"))

\* app.py:212: unquote(source_id).rstrip('/').lower(); the texts asked for
\* hold no percent sign, and the digest in either case decodes to the digest
decoded_id(sid) ==
    IF sid.kind = "digest" THEN make_id(sid.url) ELSE LowerStr(RStripSlash(sid.text))

\* `source_id in t`, the source_id as it came: a run of 16 hex digits occurs
\* in no URL and in no source id of the model
IdIn(sid, t) == sid.kind = "text" /\ Contains(t, sid.text)

\* where to cut t (of three or more characters) in two: in the middle, and not
\* between the two characters of a "\r\n"
CutOf(t, m) == IF t[m] = "\r" /\ t[m + 1] = "\n" THEN m + 1 ELSE m

RECURSIVE UniversalOf(_)
\* t with "\r\n" and "\r" replaced by "\n", the two parts of t one after the
\* other
UniversalParts(t, m) == UniversalOf(SubSeq(t, 1, m)) \o UniversalOf(SubSeq(t, m + 1, Len(t)))

UniversalOf(t) ==
    IF t = <<"\r">> \/ t = <<"\r", "\n">> THEN <<"\n">>
    ELSE IF Len(t) <= 2 /\ (\A i \in 1..Len(t) : t[i] # "\r") THEN t
    ELSE IF Len(t) = 2 THEN UniversalParts(t, 1)
    ELSE UniversalParts(t, CutOf(t, Len(t) \div 2))

\* a file opened without newline="": "\r\n" and "\r" are read as "\n", also
\* inside the quoted fields of a CSV file
Universal(t) == IF \A i \in 1..Len(t) : t[i] # "\r" THEN t ELSE UniversalOf(t)

\* the row of a CSV file as csv.reader gives it from a file opened in text
\* mode (app.py:218 and 297): the article's title and body are the fields
\* that may hold line breaks
ReadRow(row) ==
    [c \in 1..Len(row) |-> IF c \in {6, 7} THEN Universal(row[c]) ELSE row[c]]

\* csv.DictReader: the rows after the first, which gives the field names
DictRows(csv) == IF csv = <<>> THEN <<>> ELSE [i \in 1..(Len(csv) - 1) |-> ReadRow(csv[i + 1])]

\* row.get(name) under the field names `names`: has = FALSE when there is no
\* such column
Get(names, row, name) ==
    IF \E c \in 1..Len(names) : names[c] = name
    THEN [has |-> TRUE, val |-> row[CHOOSE c \in 1..Len(names) : names[c] = name]]
    ELSE [has |-> FALSE, val |-> <<>>]

\* `a or b` for two fields read with row.get, `default` when b is missing
OrField(a, b, default) ==
    IF a.has /\ Len(a.val) > 0 THEN a.val
    ELSE IF b.has THEN b.val ELSE default

\* app.py:222, 299, 303
RowTitle(names, row, default) ==
    Chars(OrField(Get(names, row, "source_title"), Get(names, row, "video_title"), default))

\* app.py:223, 300
RowUrl(names, row) ==
    Chars(OrField(Get(names, row, "source_url"), Get(names, row, "video_url"), ""))

\* app.py:220-221: the row's id is the decoded id (hex digits are in lower
\* case as save_articles writes them)
IdMatches(sid, names, row) == decoded_id(sid) = Get(names, row, "id").val

\* app.py:215-225: the rows of the master CSV whose id matches, in order
MatchedRows(csv, sid) ==
    IF csv = <<>> THEN <<>>
    ELSE SelectSeq(DictRows(csv), LAMBDA row : IdMatches(sid, csv[1], row))

\* app.py:221-224: the title of the first matching row that has one
FoundTitle(names, rows) ==
    IF \E k \in 1..Len(rows) : RowTitle(names, rows[k], "Unknown") # <<>>
    THEN RowTitle(names, rows[CHOOSE k \in 1..Len(rows) :
                                 /\ RowTitle(names, rows[k], "Unknown") # <<>>
                                 /\ \A h \in 1..(k - 1) : RowTitle(names, rows[h], "Unknown") = <<>>],
                  "Unknown")
    ELSE <<>>

\* app.py:228-235 and 314-319: the transcript files whose header holds the
\* source_id
TranscriptsOf(sid) ==
    { n \in FileNames : transcripts[n].exists /\ IdIn(sid, transcripts[n].source_id) }

\* app.py:259-267: one article per row
RowArticle(names, row) ==
    [title |-> OrField(Get(names, row, "article_title"),
                       Get(names, row, "innovation_title"), Chars("Untitled")),
     body |-> OrField(Get(names, row, "article_body"), Get(names, row, "innovation"), <<>>)]

\* app.py:249-255: the text of the articles file of the title as read_text
\* gives it, "" without a file
ArticlesRaw(safe) ==
    IF safe \in FileNames /\ text_files[safe].exists
    THEN Universal(text_files[safe].text)
    ELSE <<>>

\* the title and body of each article, as app.py:436 builds them
Plain(arts) == [i \in 1..Len(arts) |-> [title |-> arts[i].title, body |-> arts[i].body]]

\* the answer of a storage route
Answer(route, sid, status, title, arts, reparsed) ==
    [route |-> route, calls |-> response.calls + 1, source_id |-> sid, status |-> status,
     title |-> title, articles |-> arts, reparsed |-> reparsed]

\* app.py:237-238 and 321-322: HTTPException(404)
NotFound(route, sid) == Answer(route, sid, 404, <<>>, <<>>, FALSE)

\* app.py:269-271: the articles of the rows, or, without any and with text in
\* the articles file, the articles parsed from that text
DetailArticles(sid, title, from_rows, raw) ==
    IF from_rows = <<>> /\ raw # <<>>
    THEN Answer("detail", sid, 200, title, Plain(_parse_articles_from_file(raw)), TRUE)
    ELSE Answer("detail", sid, 200, title, from_rows, FALSE)

\* app.py:240-281, the source_title found
DetailOf(sid, names, rows, title) ==
    DetailArticles(sid, title, [i \in 1..Len(rows) |-> RowArticle(names, rows[i])],
                   ArticlesRaw(sanitize_filename(title)))

\* app.py:206-238, the matching rows read: the title comes from the rows,
\* else from a transcript file whose header holds the source_id (the first
\* that glob gives), else the source is not found
DetailFrom(sid, names, rows, title) ==
    IF title # <<>> THEN response' = DetailOf(sid, names, rows, title)
    ELSE IF TranscriptsOf(sid) = {} THEN response' = NotFound("detail", sid)
    ELSE \E n \in TranscriptsOf(sid) :
            response' = DetailOf(sid, names, rows, transcripts[n].title)

\* the field names of the master CSV, none when there is no file
FieldNames(csv) == IF csv = <<>> THEN <<>> ELSE csv[1]

\* GET /api/videos/{source_id}  (app.py:201-281)
GetVideoDetail(sid) ==
    /\ response.calls < MaxCalls
    /\ DetailFrom(sid, FieldNames(master_csv), MatchedRows(master_csv, sid),
                  FoundTitle(FieldNames(master_csv), MatchedRows(master_csv, sid)))
    /\ UNCHANGED <<scan, content, pc, fn, sections, articles, raised, fields, articles_file,
                   master_csv, pairs, jobs, debug_file, text_files, transcripts>>

\* app.py:298-302: the rows of the master CSV whose URL holds the source_id
\* (hit = TRUE), or the other rows
RowsByUrl(csv, sid, hit) ==
    SelectSeq(DictRows(csv), LAMBDA row : IdIn(sid, RowUrl(csv[1], row)) = hit)

\* app.py:301: the title of the last row whose URL holds the source_id
DeletedTitle(names, matched) ==
    IF matched = <<>> THEN <<>> ELSE RowTitle(names, matched[Len(matched)], "")

\* app.py:305-310: the file rewritten with the rows that are left
CsvAfterDelete(csv, title, remaining) ==
    IF csv # <<>> /\ title # <<>> THEN <<csv[1]>> \o remaining ELSE csv

\* app.py:324-337: the transcript and the articles file of the title removed
FilesAfterDelete(files, none, safe) ==
    [n \in DOMAIN files |-> IF n = safe THEN none ELSE files[n]]

\* app.py:321-339, the source_title `title` found or not
DeleteTitled(sid, title) ==
    IF title = <<>>
    THEN /\ response' = NotFound("delete", sid)
         /\ UNCHANGED <<scan, text_files, transcripts>>
    ELSE /\ response' = Answer("delete", sid, 200, title, <<>>, FALSE)
         /\ transcripts' = FilesAfterDelete(transcripts, NoTranscript, sanitize_filename(title))
         /\ text_files' = FilesAfterDelete(text_files, NoFile, sanitize_filename(title))

\* app.py:312-319: the title of the rows, else of a transcript file whose
\* header holds the source_id
DeleteFrom(sid, csv_title) ==
    IF csv_title # <<>> \/ TranscriptsOf(sid) = {} THEN DeleteTitled(sid, csv_title)
    ELSE \E n \in TranscriptsOf(sid) : DeleteTitled(sid, transcripts[n].title)

\* app.py:286-310
DeleteRows(sid, csv_title) ==
    /\ master_csv' = CsvAfterDelete(master_csv, csv_title, RowsByUrl(master_csv, sid, FALSE))
    /\ DeleteFrom(sid, csv_title)

\* DELETE /api/videos/{source_id}  (app.py:285-339)
DeleteVideo(sid) ==
    /\ response.calls < MaxCalls
    /\ DeleteRows(sid, DeletedTitle(FieldNames(master_csv), RowsByUrl(master_csv, sid, TRUE)))
    /\ UNCHANGED <<scan, content, pc, fn, sections, articles, raised, fields, articles_file,
                   pairs, jobs, debug_file>>

\* the jobs of SpecJobs, at most MaxStoreJobs of them, and the two routes
NextStore ==
    \/ \E j \in 1..MaxStoreJobs :
          \/ ApiGenerate(j)
          \/ RunGeneration(j)
          \/ FetchContent(j)
          \/ SourceFails(j)
          \/ GenerateArticles(j)
          \/ NoArticles(j)
          \/ SaveTextFile(j)
          \/ CheckCsvExists(j)
          \/ SaveAndComplete(j)
    \/ \E sid \in AskedIds :
          \/ GetVideoDetail(sid)
          \/ DeleteVideo(sid)

SpecStore == InitJobs /\ [][NextStore]_vars

\* the text file of job j's source, as read_text gives it
TextFileOf(j) == ArticlesRaw(sanitize_filename(Chars(jobs[j].src.title)))

\* job j has written its text file (save_articles lines 29-36) and no other
\* job has written the file of that title since
TextFileWrittenBy(j) ==
    /\ jobs[j].at \in {"text saved", "checked", "done"}
    /\ jobs[j].returned # <<>>
    /\ \A k \in JobIds \ {j} :
          jobs[k].src.title = jobs[j].src.title
              => jobs[k].at \notin {"text saved", "checked", "done"} \/ jobs[k].returned = <<>>

----------------------------------------------------------------------------
(* Properties of the storage routes *)

\* C26: when save_articles has written the list parse_articles returned to
\* the text file, _parse_articles_from_file applied to that file gives the
\* same titles and bodies in the same order.
StorageRoundTrip ==
    \A j \in JobIds :
        TextFileWrittenBy(j) =>
            Plain(_parse_articles_from_file(TextFileOf(j))) = Plain(jobs[j].returned)

\* the step is a call of the route
Calls(route) == response'.calls = response.calls + 1 /\ response'.route = route

\* the rows save_articles wrote under the id the source_id stands for
RowsOfSource(csv, sid) ==
    IF csv = <<>> THEN <<>> ELSE SelectSeq(Tail(csv), LAMBDA row : decoded_id(sid) = row[1])

\* the other rows, the header among them
RowsOfOthers(csv, sid) == SelectSeq(csv, LAMBDA row : decoded_id(sid) # row[1])

\* the articles stored in rows: article_title and article_body
StoredIn(rows) == [i \in 1..Len(rows) |-> [title |-> rows[i][6], body |-> rows[i][7]]]

\* C22: a call of get_video_detail with a source_id that rows of the CSV
\* match answers with the articles stored in those rows, and it re-parses the
\* articles file only when no row matched and the file has text.
DetailFromCsvFirst ==
    [][ Calls("detail") =>
          /\ RowsOfSource(master_csv, response'.source_id) # <<>> =>
                /\ response'.status = 200
                /\ response'.articles = StoredIn(RowsOfSource(master_csv, response'.source_id))
          /\ response'.reparsed =>
                /\ RowsOfSource(master_csv, response'.source_id) = <<>>
                /\ ArticlesRaw(sanitize_filename(response'.title)) # <<>>
      ]_vars

\* C28: a call of delete_video with a source_id for which get_video_detail
\* answers from the CSV removes the rows of that source from the master CSV
\* and leaves the rows of every other source.
DeleteSameSource ==
    [][ (Calls("delete") /\ RowsOfSource(master_csv, response'.source_id) # <<>>) =>
            master_csv' = RowsOfOthers(master_csv, response'.source_id)
      ]_vars

=============================================================================
